---------------------------- MODULE Spec2Model ----------------------------
(***************************************************************************)
(* The RDPDR drive channel of channels/drive/client/drive_main.c: one      *)
(* DRIVE_DEVICE with its open file table, its IRP queue and worker thread, *)
(* the IRP handlers, and device teardown.  A second specification,         *)
(* SpecRace, has several async devices that share one device manager and   *)
(* take FileIds from its id_sequence counter on their own worker threads.  *)
(***************************************************************************)
EXTENDS Integers, Sequences, FiniteSets, TLC

\* ------------------------------------------------------------------ bounds

\* id_sequence is a UINT32 and wraps modulo 2^32; the model keeps the wrap and
\* scales the modulus down so that a wrap happens while files are open.
IdModulus == 2
\* IRPs handed to drive_irp_request over the life of the device.
MaxIrps == 3
\* Devices of SpecRace, each processing one Create on its own worker.
RaceDevices == 2

\* --------------------------------------------------------- program constants

\* Stream_CheckAndLogRequiredLength(irp->input, 6 * 4 + 8) of Create
CreateHeaderLength == 32
\* Stream_CheckAndLogRequiredLength(irp->input, 12) of Read
ReadHeaderLength == 12
\* Stream_CheckAndLogRequiredLength(irp->input, 32) of Write
WriteHeaderLength == 32
\* Stream_CheckAndLogRequiredLength(irp->input, 4) of QueryInformation
QueryInformationHeaderLength == 4
\* Stream_CheckAndLogRequiredLength(irp->input, 32) of SetInformation
SetInformationHeaderLength == 32
\* Stream_CheckAndLogRequiredLength(irp->input, 4) of QueryVolumeInformation
QueryVolumeHeaderLength == 4
\* Stream_CheckAndLogRequiredLength(irp->input, 4) of LockControl
SilentIgnoreHeaderLength == 4
\* Stream_CheckAndLogRequiredLength(irp->input, 32) of QueryDirectory
QueryDirectoryHeaderLength == 32
\* Stream_Zero(irp->output, 5) of Close
ClosePadding == 5

\* The FsInformationClass values of QueryVolumeInformation's switch, and one
\* that is not among them.
VolumeClasses ==
    { "FileFsVolumeInformation", "FileFsSizeInformation",
      "FileFsAttributeInformation", "FileFsFullSizeInformation",
      "FileFsDeviceInformation" }

\* FileId values: the values of the UINT32 counter.
FileIds == 0 .. (IdModulus - 1)

\* Host error codes GetLastError() yields after a failed drive_file_* call.
HostErrors ==
    { "ERROR_SUCCESS", "ERROR_ACCESS_DENIED", "ERROR_FILE_NOT_FOUND",
      "ERROR_DIR_NOT_EMPTY", "ERROR_GEN_FAILURE" }

\* ------------------------------------------------------------------- streams

\* Stream_Write_UINT32: four bytes, little-endian.
Stream_Write_UINT32(s, v) ==
    s \o << v % 256, (v \div 256) % 256, (v \div 65536) % 256, (v \div 16777216) % 256 >>

\* Stream_Write_UINT8: one byte.
Stream_Write_UINT8(s, v) == Append(s, v % 256)

\* Stream_Zero: n zero bytes.
Stream_Zero(s, n) == s \o [i \in 1 .. n |-> 0]

\* Stream_CheckAndLogRequiredLength: at least n bytes remain in the input.
Stream_CheckAndLogRequiredLength(remaining, n) == remaining >= n

\* ---------------------------------------------------------------- error map

\* drive_map_windows_err: host error code to NT status.
drive_map_windows_err_mutant(fs_errno) ==
    IF fs_errno = "ERROR_NOT_READY" THEN "STATUS_DEVICE_BUSY" ELSE "STATUS_UNSUCCESSFUL"
drive_map_windows_err(fs_errno) ==
    CASE fs_errno = "ERROR_SUCCESS" -> "STATUS_SUCCESS"
      [] fs_errno \in {"ERROR_ACCESS_DENIED", "ERROR_SHARING_VIOLATION"} -> "STATUS_ACCESS_DENIED"
      [] fs_errno = "ERROR_FILE_NOT_FOUND" -> "STATUS_NO_SUCH_FILE"
      [] fs_errno = "ERROR_BUSY_DRIVE" -> "STATUS_DEVICE_BUSY"
      [] fs_errno = "ERROR_INVALID_DRIVE" -> "STATUS_NO_SUCH_DEVICE"
      [] fs_errno = "ERROR_NOT_READY" -> "STATUS_NO_SUCH_DEVICE"
      [] fs_errno \in {"ERROR_FILE_EXISTS", "ERROR_ALREADY_EXISTS"} -> "STATUS_OBJECT_NAME_COLLISION"
      [] fs_errno = "ERROR_INVALID_NAME" -> "STATUS_NO_SUCH_FILE"
      [] fs_errno = "ERROR_INVALID_HANDLE" -> "STATUS_INVALID_HANDLE"
      [] fs_errno = "ERROR_NO_MORE_FILES" -> "STATUS_NO_MORE_FILES"
      [] fs_errno = "ERROR_DIRECTORY" -> "STATUS_NOT_A_DIRECTORY"
      [] fs_errno = "ERROR_PATH_NOT_FOUND" -> "STATUS_OBJECT_PATH_NOT_FOUND"
      [] fs_errno = "ERROR_DIR_NOT_EMPTY" -> "STATUS_DIRECTORY_NOT_EMPTY"
      [] OTHER -> "STATUS_UNSUCCESSFUL"


\* ------------------------------------------------------------------ the IRPs

\* Information values of the Create response.
FILE_SUPERSEDED == 0
FILE_OPENED == 1
FILE_OVERWRITTEN == 3

\* One IRP as the handlers see it: the header fields the transport parsed, the
\* number of bytes in irp->input, and the fields the handler decodes from them
\* (VarLength is PathLength for Create and QueryDirectory and Length for Read,
\* Write and SetInformation).
MkIrp(major, minor, fileId, inputLength, varLength, allocationSize, disposition, class) ==
    [ MajorFunction |-> major, MinorFunction |-> minor, FileId |-> fileId,
      InputLength |-> inputLength, VarLength |-> varLength,
      AllocationSize |-> allocationSize, CreateDisposition |-> disposition,
      FsInformationClass |-> class ]

\* The FsInformationClass values QueryVolumeInformation is asked for.
AskedVolumeClasses == VolumeClasses \cup { "FileFsOther" }

\* The CreateDisposition values: the six the switch of Create names, and one
\* for every other value.
CreateDispositions ==
    { "FILE_SUPERSEDE", "FILE_OPEN", "FILE_CREATE", "FILE_OPEN_IF", "FILE_OVERWRITE",
      "FILE_OVERWRITE_IF", "FILE_DISPOSITION_OTHER" }

\* The IRPs of the model.  Each kind comes with every input length around the
\* lengths its handler requires (one byte short of the header, the header
\* alone, the header with a shorter and with the full variable part) and with
\* every FileId; the other fields vary one at a time around a well-formed IRP.
CreateIrps ==
    { MkIrp("IRP_MJ_CREATE", "IRP_MN_NONE", 0, CreateHeaderLength + 2, 2, 0, d, "none") :
        d \in CreateDispositions }
      \cup
    { MkIrp("IRP_MJ_CREATE", "IRP_MN_NONE", 0, CreateHeaderLength + 2, 2, 1, "FILE_OPEN", "none") }
      \cup
    { MkIrp("IRP_MJ_CREATE", "IRP_MN_NONE", 0, CreateHeaderLength + x[1], x[2], 0, "FILE_OPEN", "none") :
        x \in { <<-1, 0>>, <<0, 0>>, <<0, 2>>, <<1, 2>> } }
CloseIrps ==
    { MkIrp("IRP_MJ_CLOSE", "IRP_MN_NONE", f, 0, 0, 0, "none", "none") : f \in FileIds }
ReadIrps ==
    { MkIrp("IRP_MJ_READ", "IRP_MN_NONE", f, ReadHeaderLength + x[1], x[2], 0, "none", "none") :
        f \in FileIds, x \in { <<-1, 2>>, <<0, 0>>, <<0, 2>> } }
WriteIrps ==
    { MkIrp("IRP_MJ_WRITE", "IRP_MN_NONE", f, WriteHeaderLength + x[1], x[2], 0, "none", "none") :
        f \in FileIds, x \in { <<-1, 0>>, <<0, 0>>, <<1, 2>>, <<2, 2>> } }
QueryInformationIrps ==
    { MkIrp("IRP_MJ_QUERY_INFORMATION", "IRP_MN_NONE", f, QueryInformationHeaderLength + x, 0, 0,
            "none", "FileStandardInformation") :
        f \in FileIds, x \in {-1, 0} }
SetInformationIrps ==
    { MkIrp("IRP_MJ_SET_INFORMATION", "IRP_MN_NONE", f, SetInformationHeaderLength + x, 1, 0,
            "none", "FileDispositionInformation") :
        f \in FileIds, x \in {-1, 0} }
QueryVolumeIrps ==
    { MkIrp("IRP_MJ_QUERY_VOLUME_INFORMATION", "IRP_MN_NONE", 0, QueryVolumeHeaderLength, 0, 0,
            "none", c) : c \in AskedVolumeClasses }
      \cup
    { MkIrp("IRP_MJ_QUERY_VOLUME_INFORMATION", "IRP_MN_NONE", 0, QueryVolumeHeaderLength - 1, 0, 0,
            "none", "FileFsDeviceInformation"),
      MkIrp("IRP_MJ_QUERY_VOLUME_INFORMATION", "IRP_MN_NONE", 1, QueryVolumeHeaderLength, 0, 0,
            "none", "FileFsVolumeInformation") }
LockControlIrps ==
    { MkIrp("IRP_MJ_LOCK_CONTROL", "IRP_MN_NONE", 0, SilentIgnoreHeaderLength + x, 0, 0,
            "none", "none") : x \in {-1, 0} }
QueryDirectoryIrps ==
    { MkIrp("IRP_MJ_DIRECTORY_CONTROL", "IRP_MN_QUERY_DIRECTORY", f,
            QueryDirectoryHeaderLength + x[1], x[2], 0, "none", "FileDirectoryInformation") :
        f \in FileIds, x \in { <<-1, 0>>, <<0, 0>>, <<1, 2>>, <<2, 2>> } }
OtherIrps ==
    { MkIrp("IRP_MJ_DIRECTORY_CONTROL", "IRP_MN_NOTIFY_CHANGE_DIRECTORY", 0, 0, 0, 0, "none", "none"),
      MkIrp("IRP_MJ_DIRECTORY_CONTROL", "IRP_MN_OTHER", 0, 0, 0, 0, "none", "none"),
      MkIrp("IRP_MJ_DEVICE_CONTROL", "IRP_MN_NONE", 0, 0, 0, 0, "none", "none"),
      MkIrp("IRP_MJ_DEVICE_CONTROL", "IRP_MN_NONE", 0, 32, 0, 0, "none", "none"),
      MkIrp("IRP_MJ_FLUSH_BUFFERS", "IRP_MN_NONE", 0, 0, 0, 0, "none", "none") }

Irps ==
    CreateIrps \cup CloseIrps \cup ReadIrps \cup WriteIrps \cup QueryInformationIrps
      \cup SetInformationIrps \cup QueryVolumeIrps \cup LockControlIrps
      \cup QueryDirectoryIrps \cup OtherIrps

\* The IRPs posted to a device in async mode: the queue holds several IRPs at
\* once, so the model posts the kinds the worker treats differently (a
\* well-formed Create, every Close, the well-formed and the truncated Reads,
\* a NotifyChange).
AsyncIrps ==
    { i \in Irps :
        \/ /\ i.MajorFunction = "IRP_MJ_CREATE"
           /\ i.InputLength = CreateHeaderLength + 2
           /\ i.AllocationSize = 0 /\ i.CreateDisposition = "FILE_OPEN"
        \/ i.MajorFunction = "IRP_MJ_CLOSE"
        \/ i.MajorFunction = "IRP_MJ_READ" /\ i.VarLength = 2
        \/ i.MinorFunction = "IRP_MN_NOTIFY_CHANGE_DIRECTORY" }

\* --------------------------------------------------------------------- state

VARIABLES
    async,        \* DRIVE_DEVICE.async, fixed at registration
    id_sequence,  \* DEVMAN.id_sequence, the FileId counter of the device manager
    files,        \* DRIVE_DEVICE.files: FileId key -> DRIVE_FILE* value
    heap,         \* every DRIVE_FILE object allocated so far, by object number
    IrpQueue,     \* DRIVE_DEVICE.IrpQueue: the messages not yet taken
    thread,       \* DRIVE_DEVICE.thread: "none" (sync), "running" or "exited"
    phase,        \* the device: "registered", then the steps of drive_free
    irps,         \* one entry per IRP handed to drive_irp_request, in post order
    last,         \* the IRP dispatched last and what its handler did
    channelError, \* the error drive_thread_func reported with setChannelError
    rPc, rTmp, rGot, \* SpecRace: each worker's position in line 180, the value
                     \* it read, and the FileId its Create obtained
    mSite, mErrno, mStatus,  \* SpecMap: the handler recording a host failure,
                             \* the code GetLastError() gave it, and the
                             \* irp->IoStatus it left
    disk,         \* SpecFile: the host file system, local path -> entry
    objs,         \* SpecFile: the fields of every DRIVE_FILE, by object number
    hist,         \* SpecFile: per object, what the server was told so far
    xfer,         \* SpecFile: the values the last drive_file_* call moved
    regName, regPath,    \* SpecRegister: the name and path arguments
    regPc,        \* SpecRegister: the position in drive_register_drive_path
    regError,     \* SpecRegister: the local variable error
    regDrive,     \* SpecRegister: the DRIVE_DEVICE being set up
    regDevman,    \* SpecRegister: the devices the device manager holds
    regReturn,    \* SpecRegister: the value returned, "pending" before
    capLength,    \* SpecCapacity: the Length field of a Read, a UINT32
    capFile,      \* SpecCapacity: the bytes the file holds from Offset on
    capRemaining, \* SpecCapacity: the remaining capacity of irp->output
    capStored,    \* SpecCapacity: the bytes drive_file_read put at buffer
    capReturn     \* SpecCapacity: the handler's return, "pending" before

vars ==
    << async, id_sequence, files, heap, IrpQueue, thread, phase, irps, last,
       channelError, rPc, rTmp, rGot, mSite, mErrno, mStatus, disk, objs, hist, xfer,
       regName, regPath, regPc, regError, regDrive, regDevman, regReturn,
       capLength, capFile, capRemaining, capStored, capReturn >>
driveVars ==
    << async, files, heap, IrpQueue, thread, phase, irps, last, channelError >>
raceVars == << rPc, rTmp, rGot >>
mapVars == << mSite, mErrno, mStatus >>
fileVars == << disk, objs, hist, xfer >>
regVars == << regName, regPath, regPc, regError, regDrive, regDevman, regReturn >>
capVars == << capLength, capFile, capRemaining, capStored, capReturn >>

\* A NULL DRIVE_FILE*.
NULL == [ obj |-> 0, id |-> 0 ]

\* ------------------------------------------------- the file table (WinPR)

\* ListDictionary_GetItemValue: the value stored under key, or NULL.
ListDictionary_GetItemValue(dict, key) ==
    IF key \in DOMAIN dict THEN dict[key] ELSE NULL

\* ListDictionary_Add: insert(id, file); fails if the id is already present.
ListDictionary_Add(dict, key, value) ==
    IF key \in DOMAIN dict
      THEN [ ok |-> FALSE, dict |-> dict ]
      ELSE [ ok |-> TRUE,
             dict |-> [ k \in DOMAIN dict \cup {key} |->
                          IF k = key THEN value ELSE dict[k] ] ]

\* ListDictionary_Take: take(id); removes the entry, the caller frees the file.
ListDictionary_Take(dict, key) ==
    [ k \in DOMAIN dict \ {key} |-> dict[k] ]

\* drive_get_file_by_id
drive_get_file_by_id(id) == ListDictionary_GetItemValue(files, id)

\* ------------------------------------------------- file objects (drive_file)

\* drive_file_new: a new File Object with the given id, or NULL when the host
\* open fails.  The object number is its address.
drive_file_new(hp, FileId, newOk) ==
    IF newOk THEN [ obj |-> Len(hp) + 1, id |-> FileId ] ELSE NULL

\* The heap after drive_file_new allocated an object.
HeapAlloc(hp, file) ==
    Append(hp, [ id |-> file.id, frees |-> 0, reported |-> FALSE ])

\* drive_file_free: releases the OS resource and destroys the object; its
\* return value (the close/unlink result) is the host's.
drive_file_free(hp, file) ==
    [ hp EXCEPT ![file.obj].frees = @ + 1 ]

\* drive_file_objfree: the table's fnObjectFree.
drive_file_objfree(hp, file) == drive_file_free(hp, file)

\* ListDictionary_Free: destroy_all(); frees every entry with fnObjectFree.
RECURSIVE ListDictionary_Free(_, _)
ListDictionary_Free(hp, dict) ==
    IF DOMAIN dict = {} THEN hp
    ELSE LET k == CHOOSE x \in DOMAIN dict : TRUE
         IN  ListDictionary_Free(drive_file_objfree(hp, dict[k]),
                                 ListDictionary_Take(dict, k))

\* ------------------------------------------------------------ host outcomes

\* What the host and the transport answer during one handler: whether
\* drive_file_new, drive_file_seek, drive_file_write, drive_file_read,
\* drive_file_free and the drive_file_query_* / drive_file_set_information
\* callee succeed, GetLastError() after a failure, whether
\* Stream_EnsureRemainingCapacity succeeds, how many bytes fewer than asked a
\* read returns, and the code irp->Complete returns.
DefaultHost ==
    [ newOk |-> TRUE, seekOk |-> TRUE, writeOk |-> TRUE, readOk |-> TRUE,
      freeOk |-> TRUE, calleeOk |-> TRUE, capOk |-> TRUE,
      lastError |-> "ERROR_SUCCESS", readShort |-> 0,
      completeRc |-> "CHANNEL_RC_OK" ]

\* What GetLastError() returns after a failed seek, read or write: the code
\* the failing call set, or 0 when it set none.
IoErrors == { "ERROR_ACCESS_DENIED", "ERROR_SUCCESS" }

CompleteCodes == { "CHANNEL_RC_OK", "ERROR_INTERNAL_ERROR" }

\* The answers that differ from DefaultHost in what the handler of irp asks the
\* host in the current state (an answer the handler never asks for changes
\* nothing and is left out).
HostFailures(irp) ==
    LET known == irp.FileId \in DOMAIN files
        major == irp.MajorFunction
    IN  CASE major = "IRP_MJ_CREATE" ->
               { [ DefaultHost EXCEPT !.newOk = FALSE, !.lastError = e ] : e \in HostErrors }
                 \cup
               { [ DefaultHost EXCEPT !.seekOk = b, !.writeOk = ~b ] :
                   b \in IF irp.AllocationSize > 0 THEN BOOLEAN ELSE {} }
          [] major = "IRP_MJ_CLOSE" /\ known ->
               { [ DefaultHost EXCEPT !.freeOk = FALSE, !.lastError = e ] : e \in HostErrors }
          [] major = "IRP_MJ_READ" /\ known ->
               { [ DefaultHost EXCEPT !.seekOk = FALSE, !.lastError = e ] : e \in IoErrors }
                 \cup
               { [ DefaultHost EXCEPT !.readOk = FALSE, !.lastError = e ] : e \in IoErrors }
                 \cup
               { [ DefaultHost EXCEPT !.capOk = FALSE ] }
                 \cup
               { [ DefaultHost EXCEPT !.readShort = n ] : n \in 1 .. irp.VarLength }
          [] major = "IRP_MJ_READ" -> { [ DefaultHost EXCEPT !.capOk = FALSE ] }
          [] major = "IRP_MJ_WRITE" /\ known ->
               { [ DefaultHost EXCEPT !.seekOk = FALSE, !.lastError = e ] : e \in IoErrors }
                 \cup
               { [ DefaultHost EXCEPT !.writeOk = FALSE, !.lastError = e ] : e \in IoErrors }
          [] major \in { "IRP_MJ_QUERY_INFORMATION", "IRP_MJ_SET_INFORMATION" } /\ known ->
               { [ DefaultHost EXCEPT !.calleeOk = FALSE, !.lastError = "ERROR_ACCESS_DENIED" ] }
          [] major = "IRP_MJ_DIRECTORY_CONTROL" /\ known ->
               { [ DefaultHost EXCEPT !.calleeOk = FALSE, !.lastError = "ERROR_NO_MORE_FILES" ] }
          [] major = "IRP_MJ_QUERY_VOLUME_INFORMATION" ->
               { [ DefaultHost EXCEPT !.capOk = FALSE ] }
          [] OTHER -> {}

\* Every answer to the handler of irp: all succeed or one call fails, and in
\* either case irp->Complete returns any of its codes.
HostOutcomes(irp) ==
    { [ h EXCEPT !.completeRc = r ] :
        h \in {DefaultHost} \cup HostFailures(irp), r \in CompleteCodes }

\* ------------------------------------------------------------- the handlers

\* What a handler leaves behind: its return code, irp->IoStatus, the bytes of
\* irp->output, how often it invoked irp->Complete and irp->Discard, and the
\* file table, the FileId counter and the heap after it.  drive_process_irp
\* sets IoStatus to STATUS_SUCCESS before it routes the IRP.
Entered ==
    [ error |-> "CHANNEL_RC_OK", IoStatus |-> "STATUS_SUCCESS", output |-> << >>,
      Complete |-> 0, Discard |-> 0,
      files |-> files, id_sequence |-> id_sequence, heap |-> heap ]

\* return irp->Complete(irp)
Complete(r, h) == [ r EXCEPT !.Complete = @ + 1, !.error = h.completeRc ]

\* return irp->Discard(irp)
Discard(r) == [ r EXCEPT !.Discard = @ + 1, !.error = "CHANNEL_RC_OK" ]

\* return <error code>, with no callback
Return(r, code) == [ r EXCEPT !.error = code ]


\* The Information byte of a successful Create (the switch on CreateDisposition).
CreateInformationMutant(disposition) == 0
CreateInformation(disposition) ==
    CASE disposition \in {"FILE_SUPERSEDE", "FILE_OPEN", "FILE_CREATE", "FILE_OVERWRITE"} ->
           FILE_SUPERSEDED
      [] disposition = "FILE_OPEN_IF" -> FILE_OPENED
      [] disposition = "FILE_OVERWRITE_IF" -> FILE_OVERWRITTEN
      [] OTHER -> 0

\* Create's two length checks: the fixed header, then PathLength bytes.
CreateInputOk(irp) ==
    /\ Stream_CheckAndLogRequiredLength(irp.InputLength, CreateHeaderLength)
    /\ Stream_CheckAndLogRequiredLength(irp.InputLength - CreateHeaderLength, irp.VarLength)

\* FileId = irp->devman->id_sequence++: the value taken, and the counter after.
NextFileId(counter) == (counter + 1) % IdModulus

\* key = (void*)(size_t)file->id
CreateKeyMutant(file, irp) == irp.FileId
CreateKey(file, irp) == file.id

\* if (!ListDictionary_Add(drive->files, key, file)) return ERROR_INTERNAL_ERROR
CreateAddFailedMutant(add) == FALSE
CreateAddFailed(add) == ~add.ok

\* if (!file): IoStatus = drive_map_windows_err(GetLastError()), FileId = 0,
\* Information = 0; then the response is written.
CreateFailedMutant(r, fs_errno) ==
    [ r EXCEPT !.output = Stream_Write_UINT8(Stream_Write_UINT32(<< >>, 0), 0) ]
CreateFailed(r, fs_errno) ==
    [ r EXCEPT !.IoStatus = drive_map_windows_err(fs_errno),
               !.output = Stream_Write_UINT8(Stream_Write_UINT32(<< >>, 0), 0) ]

\* drive_process_irp_create
drive_process_irp_create(irp, h) ==
    IF ~CreateInputOk(irp) THEN Return(Entered, "ERROR_INVALID_DATA")
    ELSE
      LET FileId == id_sequence
          taken == [ Entered EXCEPT !.id_sequence = NextFileId(id_sequence) ]
          file == drive_file_new(heap, FileId, h.newOk)
      IN  IF file = NULL
            THEN Complete(CreateFailed(taken, h.lastError), h)
            ELSE
              LET add == ListDictionary_Add(files, CreateKey(file, irp), file)
                  made == [ taken EXCEPT !.heap = HeapAlloc(heap, file),
                                         !.files = add.dict ]
              IN  IF CreateAddFailed(add) THEN Return(made, "ERROR_INTERNAL_ERROR")
                  ELSE IF irp.AllocationSize > 0 /\ ~h.seekOk
                    THEN Return(made, "ERROR_INTERNAL_ERROR")
                  ELSE IF irp.AllocationSize > 0 /\ ~h.writeOk
                    THEN Return(made, "ERROR_INTERNAL_ERROR")
                  ELSE Complete(
                         [ made EXCEPT
                             !.heap[file.obj].reported = TRUE,
                             !.output =
                               Stream_Write_UINT8(
                                 Stream_Write_UINT32(<< >>, FileId),
                                 CreateInformation(irp.CreateDisposition)) ],
                         h)

\* Close: ListDictionary_Take(drive->files, key) when the file was found.
CloseTakeMutant(dict, key, freeOk) == IF freeOk THEN ListDictionary_Take(dict, key) ELSE dict
CloseTake(dict, key, freeOk) == ListDictionary_Take(dict, key)

\* drive_process_irp_close
drive_process_irp_close(irp, h) ==
    LET file == drive_get_file_by_id(irp.FileId)
        key == irp.FileId
        done ==
          IF file = NULL
            THEN [ Entered EXCEPT !.IoStatus = "STATUS_UNSUCCESSFUL" ]
            ELSE [ Entered EXCEPT
                     !.files = CloseTake(files, key, h.freeOk),
                     !.heap = drive_file_free(heap, file),
                     !.IoStatus = IF h.freeOk THEN "STATUS_SUCCESS"
                                  ELSE drive_map_windows_err(h.lastError) ]
    IN  Complete([ done EXCEPT !.output = Stream_Zero(<< >>, ClosePadding) ], h)

\* Read's length check.
ReadInputOk(irp) == Stream_CheckAndLogRequiredLength(irp.InputLength, ReadHeaderLength)

\* The bytes drive_file_read puts into the output: n bytes of the file.
FileBytes(n) == [ i \in 1 .. n |-> 104 ]

\* Read with no file: irp->IoStatus = STATUS_UNSUCCESSFUL; Length = 0.
ReadNoFileMutant(r) == r
ReadNoFile(r) == [ r EXCEPT !.IoStatus = "STATUS_UNSUCCESSFUL" ]

\* Read: Length = 0 when the file is unknown or the seek failed.
ReadLengthMutant(file, h, Length) == IF file = NULL THEN 0 ELSE Length
ReadLength(file, h, Length) == IF file = NULL \/ ~h.seekOk THEN 0 ELSE Length

\* drive_process_irp_read
drive_process_irp_read(irp, h) ==
    IF ~ReadInputOk(irp) THEN Return(Entered, "ERROR_INVALID_DATA")
    ELSE
      LET file == drive_get_file_by_id(irp.FileId)
          sought ==
            IF file = NULL THEN ReadNoFile(Entered)
            ELSE IF ~h.seekOk
              THEN [ Entered EXCEPT !.IoStatus = drive_map_windows_err(h.lastError) ]
            ELSE Entered
          Length == ReadLength(file, h, irp.VarLength)
      IN  IF ~h.capOk THEN Return(sought, "ERROR_INTERNAL_ERROR")
          ELSE IF Length = 0
            THEN Complete([ sought EXCEPT !.output = Stream_Write_UINT32(<< >>, 0) ], h)
          ELSE IF ~h.readOk
            THEN Complete(
                   [ sought EXCEPT
                       !.IoStatus = drive_map_windows_err(h.lastError),
                       !.output = Stream_Write_UINT32(<< >>, 0) ],
                   h)
          ELSE Complete(
                 [ sought EXCEPT
                     !.output = Stream_Write_UINT32(<< >>, Length - h.readShort)
                                  \o FileBytes(Length - h.readShort) ],
                 h)

\* Write's length checks: the fixed header, then Stream_SafeSeek over Length bytes.
WriteInputOkMutant(irp) ==
    Stream_CheckAndLogRequiredLength(irp.InputLength, WriteHeaderLength)
WriteInputOk(irp) ==
    /\ Stream_CheckAndLogRequiredLength(irp.InputLength, WriteHeaderLength)
    /\ Stream_CheckAndLogRequiredLength(irp.InputLength - WriteHeaderLength, irp.VarLength)

\* Write: Length = 0 when the file is unknown, the seek failed or the write
\* failed.
WriteLengthMutant(file, h, Length) == IF file = NULL THEN 0 ELSE Length
WriteLength(file, h, Length) ==
    IF file = NULL \/ ~h.seekOk \/ ~h.writeOk THEN 0 ELSE Length

\* drive_process_irp_write
drive_process_irp_write(irp, h) ==
    IF ~WriteInputOk(irp) THEN Return(Entered, "ERROR_INVALID_DATA")
    ELSE
      LET file == drive_get_file_by_id(irp.FileId)
          done ==
            IF file = NULL THEN [ Entered EXCEPT !.IoStatus = "STATUS_UNSUCCESSFUL" ]
            ELSE IF ~h.seekOk \/ ~h.writeOk
              THEN [ Entered EXCEPT !.IoStatus = drive_map_windows_err(h.lastError) ]
            ELSE Entered
          Length == WriteLength(file, h, irp.VarLength)
      IN  Complete(
            [ done EXCEPT
                !.output = Stream_Write_UINT8(Stream_Write_UINT32(<< >>, Length), 0) ],
            h)


\* drive_file_query_information: on success a Length prefix and the body of the
\* class (FileBasicInformation 40 bytes, FileStandardInformation 24 bytes,
\* FileAttributeTagInformation 8 bytes); host values are written as zero.
drive_file_query_information(class, ok) ==
    LET n == CASE class = "FileBasicInformation" -> 40
               [] class = "FileStandardInformation" -> 24
               [] class = "FileAttributeTagInformation" -> 8
               [] OTHER -> 0
    IN  IF ok /\ n > 0 THEN Stream_Zero(Stream_Write_UINT32(<< >>, n), n) ELSE << >>

\* drive_process_irp_query_information
drive_process_irp_query_information(irp, h) ==
    IF ~Stream_CheckAndLogRequiredLength(irp.InputLength, QueryInformationHeaderLength)
      THEN Return(Entered, "ERROR_INVALID_DATA")
    ELSE
      LET file == drive_get_file_by_id(irp.FileId)
      IN  IF file = NULL
            THEN Complete([ Entered EXCEPT !.IoStatus = "STATUS_UNSUCCESSFUL" ], h)
          ELSE IF ~h.calleeOk
            THEN Complete(
                   [ Entered EXCEPT !.IoStatus = drive_map_windows_err(h.lastError) ], h)
          ELSE Complete(
                 [ Entered EXCEPT
                     !.output = drive_file_query_information(irp.FsInformationClass, TRUE) ],
                 h)

\* drive_process_irp_set_information
drive_process_irp_set_information(irp, h) ==
    IF ~Stream_CheckAndLogRequiredLength(irp.InputLength, SetInformationHeaderLength)
      THEN Return(Entered, "ERROR_INVALID_DATA")
    ELSE
      LET file == drive_get_file_by_id(irp.FileId)
          Length == irp.VarLength
          done ==
            IF file = NULL THEN [ Entered EXCEPT !.IoStatus = "STATUS_UNSUCCESSFUL" ]
            ELSE IF ~h.calleeOk
              THEN [ Entered EXCEPT !.IoStatus = drive_map_windows_err(h.lastError) ]
            ELSE Entered
      IN  Complete([ done EXCEPT !.output = Stream_Write_UINT32(<< >>, Length) ], h)

\* The Length each class of QueryVolumeInformation announces and writes:
\* 17 + the label "FREERDP" with its NUL in UTF-16, 24, 12 + "FAT32" with its
\* NUL in UTF-16, 32, 8.
VolumeLengthMutant(class) == 24
VolumeLength(class) ==
    CASE class = "FileFsVolumeInformation" -> 17 + (7 + 1) * 2
      [] class = "FileFsSizeInformation" -> 24
      [] class = "FileFsAttributeInformation" -> 12 + (5 + 1) * 2
      [] class = "FileFsFullSizeInformation" -> 32
      [] class = "FileFsDeviceInformation" -> 8
      [] OTHER -> 0

\* The body bytes each class writes after its Length (host values as zero).
VolumeBody(class) ==
    CASE class = "FileFsVolumeInformation" -> Stream_Zero(<< >>, 4 + 4 + 4 + 4 + 1 + 16)
      [] class = "FileFsSizeInformation" -> Stream_Zero(<< >>, 8 + 8 + 4 + 4)
      [] class = "FileFsAttributeInformation" -> Stream_Zero(<< >>, 4 + 4 + 4 + 12)
      [] class = "FileFsFullSizeInformation" -> Stream_Zero(<< >>, 8 + 8 + 8 + 4 + 4)
      [] class = "FileFsDeviceInformation" -> Stream_Zero(<< >>, 4 + 4)
      [] OTHER -> << >>

\* drive_process_irp_query_volume_information
drive_process_irp_query_volume_information(irp, h) ==
    IF ~Stream_CheckAndLogRequiredLength(irp.InputLength, QueryVolumeHeaderLength)
      THEN Return(Entered, "ERROR_INVALID_DATA")
    ELSE IF irp.FsInformationClass \in VolumeClasses
      THEN LET announced ==
                 [ Entered EXCEPT
                     !.output = Stream_Write_UINT32(<< >>, VolumeLength(irp.FsInformationClass)) ]
           IN  IF ~h.capOk THEN Return(announced, "CHANNEL_RC_NO_MEMORY")
               ELSE Complete(
                      [ announced EXCEPT !.output = @ \o VolumeBody(irp.FsInformationClass) ],
                      h)
    ELSE Complete(
           [ Entered EXCEPT !.IoStatus = "STATUS_UNSUCCESSFUL",
                            !.output = Stream_Write_UINT32(<< >>, 0) ],
           h)

\* drive_process_irp_silent_ignore
drive_process_irp_silent_ignore(irp, h) ==
    IF ~Stream_CheckAndLogRequiredLength(irp.InputLength, SilentIgnoreHeaderLength)
      THEN Return(Entered, "ERROR_INVALID_DATA")
    ELSE Complete([ Entered EXCEPT !.output = Stream_Write_UINT32(<< >>, 0) ], h)

\* QueryDirectory's length checks: the fixed header, then PathLength bytes.
QueryDirectoryInputOk(irp) ==
    /\ Stream_CheckAndLogRequiredLength(irp.InputLength, QueryDirectoryHeaderLength)
    /\ Stream_CheckAndLogRequiredLength(irp.InputLength - QueryDirectoryHeaderLength,
                                        irp.VarLength)

\* drive_file_query_directory: on success one encoded entry (a Length and that
\* many bytes: the 64 fixed bytes of FileDirectoryInformation and a name of
\* one UTF-16 unit); at the end of the iteration a zero body length.
drive_file_query_directory(ok) ==
    IF ok THEN Stream_Zero(Stream_Write_UINT32(<< >>, 64 + 2), 64 + 2)
    ELSE Stream_Write_UINT32(<< >>, 0)

\* drive_process_irp_query_directory
drive_process_irp_query_directory(irp, h) ==
    IF ~QueryDirectoryInputOk(irp) THEN Return(Entered, "ERROR_INVALID_DATA")
    ELSE
      LET file == drive_get_file_by_id(irp.FileId)
      IN  IF file = NULL
            THEN Complete(
                   [ Entered EXCEPT !.IoStatus = "STATUS_UNSUCCESSFUL",
                                    !.output = Stream_Write_UINT32(<< >>, 0) ],
                   h)
          ELSE IF ~h.calleeOk
            THEN Complete(
                   [ Entered EXCEPT !.IoStatus = drive_map_windows_err(h.lastError),
                                    !.output = drive_file_query_directory(FALSE) ],
                   h)
          ELSE Complete([ Entered EXCEPT !.output = drive_file_query_directory(TRUE) ], h)

\* case IRP_MN_NOTIFY_CHANGE_DIRECTORY: return irp->Discard(irp)
NotifyChangeMutant(r) == r
NotifyChange(r) == Discard(r)

\* drive_process_irp_directory_control
drive_process_irp_directory_control(irp, h) ==
    CASE irp.MinorFunction = "IRP_MN_QUERY_DIRECTORY" ->
           drive_process_irp_query_directory(irp, h)
      [] irp.MinorFunction = "IRP_MN_NOTIFY_CHANGE_DIRECTORY" -> NotifyChange(Entered)
      [] OTHER ->
           Complete(
             [ Entered EXCEPT !.IoStatus = "STATUS_NOT_SUPPORTED",
                              !.output = Stream_Write_UINT32(<< >>, 0) ],
             h)

\* drive_process_irp_device_control
drive_process_irp_device_control_mutant(irp, h) ==
    Complete([ Entered EXCEPT !.IoStatus = "STATUS_NOT_SUPPORTED" ], h)
drive_process_irp_device_control(irp, h) ==
    Complete([ Entered EXCEPT !.output = Stream_Write_UINT32(<< >>, 0) ], h)

\* drive_process_irp: the routing by MajorFunction.
drive_process_irp(irp, h) ==
    CASE irp.MajorFunction = "IRP_MJ_CREATE" -> drive_process_irp_create(irp, h)
      [] irp.MajorFunction = "IRP_MJ_CLOSE" -> drive_process_irp_close(irp, h)
      [] irp.MajorFunction = "IRP_MJ_READ" -> drive_process_irp_read(irp, h)
      [] irp.MajorFunction = "IRP_MJ_WRITE" -> drive_process_irp_write(irp, h)
      [] irp.MajorFunction = "IRP_MJ_QUERY_INFORMATION" ->
           drive_process_irp_query_information(irp, h)
      [] irp.MajorFunction = "IRP_MJ_SET_INFORMATION" ->
           drive_process_irp_set_information(irp, h)
      [] irp.MajorFunction = "IRP_MJ_QUERY_VOLUME_INFORMATION" ->
           drive_process_irp_query_volume_information(irp, h)
      [] irp.MajorFunction = "IRP_MJ_LOCK_CONTROL" -> drive_process_irp_silent_ignore(irp, h)
      [] irp.MajorFunction = "IRP_MJ_DIRECTORY_CONTROL" ->
           drive_process_irp_directory_control(irp, h)
      [] irp.MajorFunction = "IRP_MJ_DEVICE_CONTROL" ->
           drive_process_irp_device_control(irp, h)
      [] OTHER -> Complete([ Entered EXCEPT !.IoStatus = "STATUS_NOT_SUPPORTED" ], h)

\* drive_poll_run: FALSE when the dispatcher returned an error.
drive_poll_run_mutant(error) == TRUE
drive_poll_run(error) == error = "CHANNEL_RC_OK"


\* drive_irp_request, sync mode: ERROR_INTERNAL_ERROR when drive_poll_run
\* returned FALSE, CHANNEL_RC_OK otherwise.
SyncReturnMutant(error) == error
SyncReturn(error) ==
    IF ~drive_poll_run(error) THEN "ERROR_INTERNAL_ERROR" ELSE "CHANNEL_RC_OK"

\* drive_irp_request, async mode: ERROR_INTERNAL_ERROR when MessageQueue_Post
\* returned FALSE, CHANNEL_RC_OK otherwise.
AsyncReturnMutant(postOk) == "CHANNEL_RC_OK"
AsyncReturn(postOk) == IF ~postOk THEN "ERROR_INTERNAL_ERROR" ELSE "CHANNEL_RC_OK"

\* ------------------------------------------------------------ the IRP queue

NoIrp == MkIrp("none", "IRP_MN_NONE", 0, 0, 0, 0, "none", "none")

\* The message MessageQueue_Post(queue, NULL, 0, irp, NULL) enqueues (id 0,
\* written "IRP"), and the one MessageQueue_PostQuit enqueues.
IrpMessage(irp, seq) == [ id |-> "IRP", irp |-> irp, seq |-> seq ]
QuitMessage == [ id |-> "WMQ_QUIT", irp |-> NoIrp, seq |-> 0 ]

\* drive_message_free: the queue's fnObjectFree; discards the IRP of a message
\* that carries one.
drive_message_free_mutant(log, msg) == log
drive_message_free(log, msg) ==
    IF msg.id # "IRP" THEN log
    ELSE [ log EXCEPT ![msg.seq].Discard = @ + 1, ![msg.seq].state = "drained" ]

\* MessageQueue_Free: clears the queue, passing every message still in it to
\* fnObjectFree.
RECURSIVE MessageQueue_Free(_, _)
MessageQueue_Free(log, queue) ==
    IF queue = << >> THEN log
    ELSE MessageQueue_Free(drive_message_free(log, Head(queue)), Tail(queue))

\* ---------------------------------------------------------------- the device

EmptyTable == [ k \in {} |-> NULL ]

NoLast ==
    [ seq |-> 0, irp |-> NoIrp, error |-> "CHANNEL_RC_OK", IoStatus |-> "STATUS_SUCCESS",
      output |-> << >>, Complete |-> 0, Discard |-> 0, host |-> DefaultHost ]

\* The state after drive_register_drive_path: async = !SynchronousStaticChannels,
\* an empty table and queue, and a worker thread exactly for an async device.
DriveInit ==
    /\ async \in BOOLEAN
    /\ id_sequence = 1
    /\ files = EmptyTable
    /\ heap = << >>
    /\ IrpQueue = << >>
    /\ thread = IF async THEN "running" ELSE "none"
    /\ phase = "registered"
    /\ irps = << >>
    /\ last = NoLast
    /\ channelError = "CHANNEL_RC_OK"
    /\ rPc = [ d \in 1 .. RaceDevices |-> "idle" ]
    /\ rTmp = [ d \in 1 .. RaceDevices |-> 0 ]
    /\ rGot = [ d \in 1 .. RaceDevices |-> 0 ]

\* No handler is recording a host failure on its own.
MapIdle ==
    /\ mSite = "none"
    /\ mErrno = "ERROR_SUCCESS"
    /\ mStatus = "none"

\* No host file system is attached.
FileIdle ==
    /\ disk = << >>
    /\ objs = << >>
    /\ hist = << >>
    /\ xfer = << >>

\* No registration is in progress: the device of DriveInit is registered.
RegIdle ==
    /\ regName = << >>
    /\ regPath = << >>
    /\ regPc = "done"
    /\ regError = "CHANNEL_RC_OK"
    /\ regDrive = << >>
    /\ regDevman = {}
    /\ regReturn = "CHANNEL_RC_OK"

\* No Read is reserving output capacity on its own.
CapIdle ==
    /\ capLength = << >>
    /\ capFile = 0
    /\ capRemaining = << >>
    /\ capStored = 0
    /\ capReturn = "none"

Init == DriveInit /\ MapIdle /\ FileIdle /\ RegIdle /\ CapIdle

\* One run of drive_process_irp on the IRP with post number seq: the handler's
\* effects on the table, the counter and the heap, and the record of it.
Dispatched(irp, seq, h, log) ==
    \E r \in { drive_process_irp(irp, h) } :
        /\ files' = r.files
        /\ id_sequence' = r.id_sequence
        /\ heap' = r.heap
        /\ last' = [ seq |-> seq, irp |-> irp, error |-> r.error, IoStatus |-> r.IoStatus,
                     output |-> r.output, Complete |-> r.Complete, Discard |-> r.Discard,
                     host |-> h ]
        /\ irps' = [ log EXCEPT ![seq].Complete = r.Complete, ![seq].Discard = r.Discard,
                                ![seq].state = "returned",
                                ![seq].rc = IF log[seq].state = "queued" THEN @
                                            ELSE SyncReturn(r.error) ]

LogEntry(state, rc) == [ Complete |-> 0, Discard |-> 0, state |-> state, rc |-> rc ]

\* drive_irp_request, sync mode: drive_poll_run inline.
SyncRequest ==
    /\ ~async
    /\ phase = "registered"
    /\ Len(irps) < MaxIrps
    /\ \E irp \in Irps : \E h \in HostOutcomes(irp) :
         Dispatched(irp, Len(irps) + 1, h, Append(irps, LogEntry("inline", "CHANNEL_RC_OK")))
    /\ UNCHANGED << async, IrpQueue, thread, phase, channelError, raceVars, mapVars, fileVars, regVars, capVars >>

\* drive_irp_request, async mode: MessageQueue_Post, which may fail.
AsyncRequest ==
    /\ async
    /\ phase = "registered"
    /\ Len(irps) < MaxIrps
    /\ \E irp \in AsyncIrps : \E postOk \in BOOLEAN :
         IF postOk
           THEN /\ IrpQueue' = Append(IrpQueue, IrpMessage(irp, Len(irps) + 1))
                /\ irps' = Append(irps, LogEntry("queued", AsyncReturn(postOk)))
           ELSE /\ IrpQueue' = IrpQueue
                /\ irps' = Append(irps, LogEntry("rejected", AsyncReturn(postOk)))
    /\ UNCHANGED << async, id_sequence, files, heap, thread, phase, last, channelError,
                    raceVars, mapVars, fileVars, regVars, capVars >>

\* drive_thread_func, one turn of the loop with an IRP at the head of the
\* queue: MessageQueue_Peek removes it, drive_poll_run dispatches it, and the
\* loop ends when drive_poll_run returns FALSE.
WorkerIrp ==
    /\ thread = "running"
    /\ IrpQueue # << >>
    /\ Head(IrpQueue).id = "IRP"
    /\ IrpQueue' = Tail(IrpQueue)
    /\ \E h \in HostOutcomes(Head(IrpQueue).irp) :
         Dispatched(Head(IrpQueue).irp, Head(IrpQueue).seq, h, irps)
    /\ thread' = IF drive_poll_run(last'.error) THEN "running" ELSE "exited"
    /\ UNCHANGED << async, phase, channelError, raceVars, mapVars, fileVars, regVars, capVars >>

\* drive_thread_func, the turn that takes WMQ_QUIT: the loop ends, error is 0.
WorkerQuit ==
    /\ thread = "running"
    /\ IrpQueue # << >>
    /\ Head(IrpQueue).id = "WMQ_QUIT"
    /\ IrpQueue' = Tail(IrpQueue)
    /\ thread' = "exited"
    /\ UNCHANGED << async, id_sequence, files, heap, phase, irps, last, channelError,
                    raceVars, mapVars, fileVars, regVars, capVars >>

\* drive_thread_func, MessageQueue_Wait fails: the loop ends with
\* ERROR_INTERNAL_ERROR, reported with setChannelError.
WorkerWaitFails ==
    /\ thread = "running"
    /\ thread' = "exited"
    /\ channelError' = "ERROR_INTERNAL_ERROR"
    /\ UNCHANGED << async, id_sequence, files, heap, IrpQueue, phase, irps, last, raceVars, mapVars, fileVars, regVars, capVars >>

\* drive_free: MessageQueue_PostQuit. When the post fails the && skips the
\* wait and drive_free goes on to drive_free_int at once.
FreePostQuit ==
    /\ phase = "registered"
    /\ \E postOk \in BOOLEAN :
         IF postOk
           THEN IrpQueue' = Append(IrpQueue, QuitMessage) /\ phase' = "waiting"
           ELSE IrpQueue' = IrpQueue /\ phase' = "free_files"
    /\ UNCHANGED << async, id_sequence, files, heap, thread, irps, last, channelError,
                    raceVars, mapVars, fileVars, regVars, capVars >>

\* WaitForSingleObject(drive->thread, INFINITE): WAIT_FAILED for the NULL
\* handle of a sync device, otherwise it returns when the worker has exited.
WaitForSingleObject(handle) ==
    CASE handle = "none" -> "WAIT_FAILED"
      [] handle = "exited" -> "WAIT_OBJECT_0"
      [] OTHER -> "blocked"

\* drive_free: the wait; on WAIT_FAILED it returns the error and frees nothing.
FreeWait ==
    /\ phase = "waiting"
    /\ WaitForSingleObject(thread) # "blocked"
    /\ phase' = IF WaitForSingleObject(thread) = "WAIT_FAILED" THEN "free_failed"
                ELSE "free_files"
    /\ UNCHANGED << async, id_sequence, files, heap, IrpQueue, thread, irps, last,
                    channelError, raceVars, mapVars, fileVars, regVars, capVars >>

\* drive_free_int: CloseHandle(drive->thread); ListDictionary_Free(drive->files).
FreeFiles ==
    /\ phase = "free_files"
    /\ heap' = ListDictionary_Free(heap, files)
    /\ files' = EmptyTable
    /\ phase' = "free_queue"
    /\ UNCHANGED << async, id_sequence, IrpQueue, thread, irps, last, channelError,
                    raceVars, mapVars, fileVars, regVars, capVars >>

\* drive_free_int: MessageQueue_Free(drive->IrpQueue), then the device is freed.
FreeQueue ==
    /\ phase = "free_queue"
    /\ irps' = MessageQueue_Free(irps, IrpQueue)
    /\ IrpQueue' = << >>
    /\ phase' = "freed"
    /\ UNCHANGED << async, id_sequence, files, heap, thread, last, channelError, raceVars, mapVars, fileVars, regVars, capVars >>

Next ==
    \/ SyncRequest
    \/ AsyncRequest
    \/ WorkerIrp
    \/ WorkerQuit
    \/ WorkerWaitFails
    \/ FreePostQuit
    \/ FreeWait
    \/ FreeFiles
    \/ FreeQueue

Spec == Init /\ [][Next]_vars


\* ------------------------------------------------- devices sharing the devman

\* SpecRace: RaceDevices async devices registered with one device manager.
\* Each is posted one well-formed Create, which its own worker thread
\* dispatches; FileId = irp->devman->id_sequence++ is a load of the shared
\* counter followed by a store of the loaded value plus one, with no lock
\* and no atomic.
InitRace == Init /\ async

\* drive_irp_request posts the Create to device d.
RacePost(d) ==
    /\ rPc[d] = "idle"
    /\ rPc' = [ rPc EXCEPT ![d] = "queued" ]
    /\ UNCHANGED << id_sequence, driveVars, mapVars, fileVars, regVars, capVars, rTmp, rGot >>

\* The worker of device d takes the message and enters the Create handler.
RaceTake(d) ==
    /\ rPc[d] = "queued"
    /\ rPc' = [ rPc EXCEPT ![d] = "taken" ]
    /\ UNCHANGED << id_sequence, driveVars, mapVars, fileVars, regVars, capVars, rTmp, rGot >>

\* The worker of device d loads id_sequence.
RaceLoad(d) ==
    /\ rPc[d] = "taken"
    /\ rTmp' = [ rTmp EXCEPT ![d] = id_sequence ]
    /\ rPc' = [ rPc EXCEPT ![d] = "loaded" ]
    /\ UNCHANGED << id_sequence, driveVars, mapVars, fileVars, regVars, capVars, rGot >>

\* The worker of device d stores the incremented value; FileId is the value
\* it loaded.
RaceStore(d) ==
    /\ rPc[d] = "loaded"
    /\ id_sequence' = NextFileId(rTmp[d])
    /\ rGot' = [ rGot EXCEPT ![d] = rTmp[d] ]
    /\ rPc' = [ rPc EXCEPT ![d] = "stored" ]
    /\ UNCHANGED << driveVars, mapVars, fileVars, regVars, capVars, rTmp >>

\* drive_file_new of device d with that FileId.
RaceOpen(d) ==
    /\ rPc[d] = "stored"
    /\ \E newOk \in BOOLEAN :
         rPc' = [ rPc EXCEPT ![d] = IF newOk THEN "opened" ELSE "failed" ]
    /\ UNCHANGED << id_sequence, driveVars, mapVars, fileVars, regVars, capVars, rTmp, rGot >>

\* The rest of the handler of device d: the file goes into the device's own
\* table and the response carries the FileId, or 0 after a failed open.
RaceComplete(d) ==
    /\ rPc[d] \in { "opened", "failed" }
    /\ rPc' = [ rPc EXCEPT ![d] = IF rPc[d] = "opened" THEN "created" ELSE "refused" ]
    /\ UNCHANGED << id_sequence, driveVars, mapVars, fileVars, regVars, capVars, rTmp, rGot >>

NextRace ==
    \E d \in 1 .. RaceDevices :
      \/ RacePost(d)
      \/ RaceTake(d)
      \/ RaceLoad(d)
      \/ RaceStore(d)
      \/ RaceOpen(d)
      \/ RaceComplete(d)

SpecRace == InitRace /\ [][NextRace]_vars

\* ------------------------------------------------------ the error mapper alone

\* The host error codes the mapper is applied to: those it names and some it
\* does not.
MapCodes ==
    { "ERROR_SUCCESS", "ERROR_ACCESS_DENIED", "ERROR_SHARING_VIOLATION",
      "ERROR_FILE_NOT_FOUND", "ERROR_BUSY_DRIVE", "ERROR_INVALID_DRIVE", "ERROR_NOT_READY",
      "ERROR_FILE_EXISTS", "ERROR_ALREADY_EXISTS", "ERROR_INVALID_NAME",
      "ERROR_INVALID_HANDLE", "ERROR_NO_MORE_FILES", "ERROR_DIRECTORY",
      "ERROR_PATH_NOT_FOUND", "ERROR_DIR_NOT_EMPTY",
      "ERROR_GEN_FAILURE", "ERROR_DISK_FULL", "ERROR_NOT_SUPPORTED", "ERROR_HANDLE_EOF",
      "ERROR_WRITE_PROTECT", "ERROR_INVALID_PARAMETER", "ERROR_NOT_ENOUGH_MEMORY" }

\* The places where a handler records a host failure with
\* irp->IoStatus = drive_map_windows_err(GetLastError()).
MapSites ==
    { "create_new", "close_free", "read_seek", "read_read", "write_seek", "write_write",
      "query_information", "set_information", "query_directory" }

\* A handler is about to record a host failure whose code is mErrno.
InitMap ==
    /\ DriveInit /\ ~async
    /\ FileIdle /\ RegIdle /\ CapIdle
    /\ mSite \in MapSites
    /\ mErrno \in MapCodes
    /\ mStatus = "none"

\* irp->IoStatus = drive_map_windows_err(GetLastError())
RecordHostFailure ==
    /\ mStatus = "none"
    /\ mStatus' = drive_map_windows_err(mErrno)
    /\ UNCHANGED << id_sequence, driveVars, raceVars, fileVars, regVars, capVars, mSite, mErrno >>

NextMap == RecordHostFailure

SpecMap == InitMap /\ [][NextMap]_vars

\* ------------------------------------------- the device over a host file system
\*
\* drive_file.c and the host are not part of the sources at hand.  SpecFile
\* runs the handlers of drive_main.c, in sync mode, over a file object and a
\* host file system written from the design document (3, 4.1, 4.3): the answers
\* the handlers get from drive_file_* are the ones this file system gives.

\* The IRPs one behaviour of SpecFile dispatches.
MaxFileIrps == MaxIrps + 1

\* Local paths are sequences of names: the exported directory, the names it can
\* hold, and one file outside it.
root_path == << "share" >>
Outside == << "x" >>
NameOrder == << "a", "b", "c" >>
Names == { NameOrder[i] : i \in 1 .. Len(NameOrder) }
LocalPaths == { root_path, Outside } \cup { Append(root_path, n) : n \in Names }

NoEntry == [ exists |-> FALSE, dir |-> FALSE, data |-> << >> ]
DirectoryEntry == [ exists |-> TRUE, dir |-> TRUE, data |-> << >> ]
RegularFile(bytes) == [ exists |-> TRUE, dir |-> FALSE, data |-> bytes ]

\* The exported directory holds a one-byte file a and an empty file b.
InitialDisk ==
    [ p \in LocalPaths |->
        CASE p = root_path -> DirectoryEntry
          [] p = Append(root_path, "a") -> RegularFile(<< 1 >>)
          [] p = Append(root_path, "b") -> RegularFile(<< >>)
          [] p = Outside -> RegularFile(<< 9 >>)
          [] OTHER -> NoEntry ]

\* 4.1 Join and Containment: every wire component is appended to the local
\* path, a ".." component removes the last one, and a ".." that would leave
\* root is an error.
RECURSIVE WalkFree(_, _, _)
WalkFree(root, stack, rest) ==
    IF rest = << >> THEN [ ok |-> TRUE, path |-> stack ]
    ELSE IF Head(rest) = ".."
      THEN WalkFree(root, IF stack = << >> THEN stack ELSE SubSeq(stack, 1, Len(stack) - 1),
                    Tail(rest))
    ELSE WalkFree(root, Append(stack, Head(rest)), Tail(rest))

RECURSIVE Walk(_, _, _)
Walk(root, stack, rest) ==
    IF rest = << >> THEN [ ok |-> TRUE, path |-> stack ]
    ELSE IF Head(rest) = ".."
      THEN IF Len(stack) <= Len(root) THEN [ ok |-> FALSE, path |-> root ]
           ELSE Walk(root, SubSeq(stack, 1, Len(stack) - 1), Tail(rest))
    ELSE Walk(root, Append(stack, Head(rest)), Tail(rest))

resolveMutant(root, wire_path) == WalkFree(root, root, wire_path)
resolve(root, wire_path) == Walk(root, root, wire_path)

\* 3 File Object: the fields of a DRIVE_FILE.
NoObject ==
    [ id |-> 0, local_path |-> << >>, dir |-> FALSE, create_options |-> {},
      is_deleted_on_close |-> FALSE, wildcard |-> "none", cursor |-> 0 ]

\* The directory at path dir holds an entry named n.
ChildExists(d, dir, n) ==
    /\ Append(dir, n) \in DOMAIN d
    /\ d[Append(dir, n)].exists

DirectoryEmpty(d, dir) == \A n \in Names : ~ChildExists(d, dir, n)

FsFailed(d, o, err) == [ ok |-> FALSE, err |-> err, disk |-> d, obj |-> o ]
FsDone(d, o) == [ ok |-> TRUE, err |-> "ERROR_SUCCESS", disk |-> d, obj |-> o ]

\* 4.3.1 steps 1 and 2 (drive_file_new): resolve the wire path, then map the
\* disposition and the options to an OS open.
FsOpen(d, irp, FileId) ==
    LET r == resolve(root_path, irp.Path)
        wantDir == "FILE_DIRECTORY_FILE" \in irp.CreateOptions
        object(entry) ==
            [ id |-> FileId, local_path |-> r.path, dir |-> entry.dir,
              create_options |-> irp.CreateOptions,
              is_deleted_on_close |-> "FILE_DELETE_ON_CLOSE" \in irp.CreateOptions,
              wildcard |-> "none", cursor |-> 0 ]
        opened(entry) == FsDone([ d EXCEPT ![r.path] = entry ], object(entry))
    IN  IF ~r.ok THEN FsFailed(d, NoObject, "ERROR_ACCESS_DENIED")
        ELSE IF r.path # root_path /\ ~d[root_path].exists
          THEN FsFailed(d, NoObject, "ERROR_PATH_NOT_FOUND")
        ELSE IF d[r.path].exists
          THEN IF wantDir /\ ~d[r.path].dir THEN FsFailed(d, NoObject, "ERROR_DIRECTORY")
               ELSE IF irp.CreateDisposition = "FILE_CREATE"
                 THEN FsFailed(d, NoObject, "ERROR_FILE_EXISTS")
               ELSE IF /\ irp.CreateDisposition \in { "FILE_SUPERSEDE", "FILE_OVERWRITE",
                                                      "FILE_OVERWRITE_IF" }
                       /\ ~d[r.path].dir
                 THEN opened(RegularFile(<< >>))
               ELSE opened(d[r.path])
        ELSE IF irp.CreateDisposition \in { "FILE_OPEN", "FILE_OVERWRITE" }
          THEN FsFailed(d, NoObject, "ERROR_FILE_NOT_FOUND")
        ELSE opened(IF wantDir THEN DirectoryEntry ELSE RegularFile(<< >>))

\* drive_file_seek: a regular file that is still there can be positioned.
FsSeek(d, o, Offset) == ~o.dir /\ d[o.local_path].exists

\* The bytes of a file after bytes were written at Offset: a gap is zeros.
Overlay(data, Offset, bytes) ==
    LET end == Offset + Len(bytes)
        size == IF Len(data) > end THEN Len(data) ELSE end
    IN  [ i \in 1 .. size |->
            IF i > Offset /\ i <= end THEN bytes[i - Offset]
            ELSE IF i <= Len(data) THEN data[i] ELSE 0 ]

\* drive_file_write at the position Offset.
FsWrite(d, o, Offset, bytes) ==
    [ d EXCEPT ![o.local_path].data = Overlay(@, Offset, bytes) ]

\* drive_file_read at the position Offset: up to Length bytes, fewer at the end
\* of the file.
FsReadMutant(d, o, Offset, Length) ==
    LET data == d[o.local_path].data
    IN  SubSeq(data, 1, IF Length < Len(data) THEN Length ELSE Len(data))
FsRead(d, o, Offset, Length) ==
    LET data == d[o.local_path].data
        end == IF Offset + Length < Len(data) THEN Offset + Length ELSE Len(data)
    IN  IF Offset >= Len(data) THEN << >> ELSE SubSeq(data, Offset + 1, end)

\* 4.3.5 FileDispositionInformation: set is_deleted_on_close from the Delete
\* byte; a directory that is not empty cannot be marked.
FsSetDisposition(d, o, Delete) ==
    IF ~d[o.local_path].exists THEN FsFailed(d, o, "ERROR_FILE_NOT_FOUND")
    ELSE IF Delete /\ o.dir /\ ~DirectoryEmpty(d, o.local_path)
      THEN FsFailed(d, o, "ERROR_DIR_NOT_EMPTY")
    ELSE FsDone(d, [ o EXCEPT !.is_deleted_on_close = Delete ])

\* 4.3.5 FileRenameInformation: the target is resolved against root_path; an
\* existing target is a collision.
FsRename(d, o, Target) ==
    LET r == resolve(root_path, Target)
    IN  IF ~r.ok THEN FsFailed(d, o, "ERROR_ACCESS_DENIED")
        ELSE IF ~d[o.local_path].exists THEN FsFailed(d, o, "ERROR_FILE_NOT_FOUND")
        ELSE IF d[r.path].exists THEN FsFailed(d, o, "ERROR_ALREADY_EXISTS")
        ELSE IF o.local_path = root_path THEN FsFailed(d, o, "ERROR_ACCESS_DENIED")
        ELSE FsDone([ d EXCEPT ![r.path] = d[o.local_path], ![o.local_path] = NoEntry ],
                    [ o EXCEPT !.local_path = r.path ])

\* drive_file_set_information
FsSetInformation(d, o, irp) ==
    CASE irp.FsInformationClass = "FileDispositionInformation" ->
           FsSetDisposition(d, o, irp.Delete)
      [] irp.FsInformationClass = "FileRenameInformation" -> FsRename(d, o, irp.Target)
      [] OTHER -> FsFailed(d, o, "ERROR_NOT_SUPPORTED")

\* Wildcard matching on the names of the model: "*" matches every name, any
\* other pattern the name equal to it.
Match(wildcard, name) == wildcard = "*" \/ wildcard = name

\* The positions after cursor, in the host's order, that hold a matching entry.
MatchesAfter(d, o, wildcard, cursor) ==
    { i \in (cursor + 1) .. Len(NameOrder) :
        ChildExists(d, o.local_path, NameOrder[i]) /\ Match(wildcard, NameOrder[i]) }

\* 4.3.6 (drive_file_query_directory): InitialQuery = 1 stores the wildcard and
\* resets the cursor; the next matching entry is returned, and the end of the
\* iteration is ERROR_NO_MORE_FILES.
FsQueryDirectoryMutant(d, o, InitialQuery, Pattern) ==
    LET wildcard == IF InitialQuery = 1 THEN Pattern ELSE o.wildcard
        found == IF wildcard = "none" THEN {} ELSE MatchesAfter(d, o, wildcard, o.cursor)
        next == CHOOSE i \in found : \A j \in found : i <= j
    IN  IF ~o.dir \/ ~d[o.local_path].exists
          THEN [ ok |-> FALSE, err |-> "ERROR_DIRECTORY", obj |-> o, entry |-> "none" ]
        ELSE IF wildcard = "none"
          THEN [ ok |-> FALSE, err |-> "ERROR_INVALID_HANDLE", obj |-> o, entry |-> "none" ]
        ELSE IF found = {}
          THEN [ ok |-> FALSE, err |-> "ERROR_NO_MORE_FILES",
                 obj |-> [ o EXCEPT !.wildcard = wildcard, !.cursor = Len(NameOrder) ],
                 entry |-> "none" ]
        ELSE [ ok |-> TRUE, err |-> "ERROR_SUCCESS",
               obj |-> [ o EXCEPT !.wildcard = wildcard, !.cursor = next ],
               entry |-> NameOrder[next] ]
FsQueryDirectory(d, o, InitialQuery, Pattern) ==
    LET wildcard == IF InitialQuery = 1 THEN Pattern ELSE o.wildcard
        cursor == IF InitialQuery = 1 THEN 0 ELSE o.cursor
        found == IF wildcard = "none" THEN {} ELSE MatchesAfter(d, o, wildcard, cursor)
        next == CHOOSE i \in found : \A j \in found : i <= j
    IN  IF ~o.dir \/ ~d[o.local_path].exists
          THEN [ ok |-> FALSE, err |-> "ERROR_DIRECTORY", obj |-> o, entry |-> "none" ]
        ELSE IF wildcard = "none"
          THEN [ ok |-> FALSE, err |-> "ERROR_INVALID_HANDLE", obj |-> o, entry |-> "none" ]
        ELSE IF found = {}
          THEN [ ok |-> FALSE, err |-> "ERROR_NO_MORE_FILES",
                 obj |-> [ o EXCEPT !.wildcard = wildcard, !.cursor = Len(NameOrder) ],
                 entry |-> "none" ]
        ELSE [ ok |-> TRUE, err |-> "ERROR_SUCCESS",
               obj |-> [ o EXCEPT !.wildcard = wildcard, !.cursor = next ],
               entry |-> NameOrder[next] ]

\* 4.3.8 (drive_file_free): close the handle; if is_deleted_on_close, unlink.
FsCloseMutant(d, o) == FsDone(d, o)
FsClose(d, o) ==
    IF ~o.is_deleted_on_close THEN FsDone(d, o)
    ELSE IF ~d[o.local_path].exists THEN FsFailed(d, o, "ERROR_FILE_NOT_FOUND")
    ELSE IF o.dir /\ ~DirectoryEmpty(d, o.local_path)
      THEN FsFailed(d, o, "ERROR_DIR_NOT_EMPTY")
    ELSE FsDone([ d EXCEPT ![o.local_path] = NoEntry ], o)

\* Create's allocation step: if (allocationSize > 0) seek to allocationSize - 1
\* and write one zero byte.
CreateAllocateMutant(d, o, allocationSize) == [ seekOk |-> TRUE, disk |-> d ]
CreateAllocate(d, o, allocationSize) ==
    IF allocationSize > 0
      THEN IF FsSeek(d, o, allocationSize - 1)
             THEN [ seekOk |-> TRUE, disk |-> FsWrite(d, o, allocationSize - 1, << 0 >>) ]
             ELSE [ seekOk |-> FALSE, disk |-> d ]
    ELSE [ seekOk |-> TRUE, disk |-> d ]

\* An IRP with the further fields of its request body.
Extend(irp, body) ==
    [ f \in DOMAIN irp \cup DOMAIN body |-> IF f \in DOMAIN body THEN body[f] ELSE irp[f] ]

FileCreateIrp(Path, disposition, options, allocationSize) ==
    Extend(MkIrp("IRP_MJ_CREATE", "IRP_MN_NONE", 0, CreateHeaderLength + 2 * (Len(Path) + 1),
                 2 * (Len(Path) + 1), allocationSize, disposition, "none"),
           [ Path |-> Path, CreateOptions |-> options ])

\* The Creates the server sends: files that exist and that do not, the
\* directory, paths with "..", with and without an allocation size.
FileCreateIrps ==
    { FileCreateIrp(<< "a" >>, "FILE_OPEN", {}, 0),
      FileCreateIrp(<< "a" >>, "FILE_OPEN", {}, 2),
      FileCreateIrp(<< "a" >>, "FILE_OPEN", { "FILE_DELETE_ON_CLOSE" }, 0),
      FileCreateIrp(<< "a" >>, "FILE_OVERWRITE_IF", {}, 0),
      FileCreateIrp(<< "c" >>, "FILE_CREATE", {}, 2),
      FileCreateIrp(<< >>, "FILE_OPEN", { "FILE_DIRECTORY_FILE" }, 0),
      FileCreateIrp(<< >>, "FILE_OPEN", { "FILE_DIRECTORY_FILE" }, 2),
      FileCreateIrp(<< "..", "x" >>, "FILE_OPEN", {}, 0),
      FileCreateIrp(<< "a", "..", "b" >>, "FILE_OPEN", {}, 0) }

FileReadIrps ==
    { Extend(MkIrp("IRP_MJ_READ", "IRP_MN_NONE", f, ReadHeaderLength, x[2], 0, "none", "none"),
             [ Offset |-> x[1] ]) :
        f \in FileIds, x \in { << 0, 2 >>, << 1, 1 >> } }

FileWriteIrps ==
    { Extend(MkIrp("IRP_MJ_WRITE", "IRP_MN_NONE", f, WriteHeaderLength + Len(x[2]), Len(x[2]), 0,
                   "none", "none"),
             [ Offset |-> x[1], Data |-> x[2] ]) :
        f \in FileIds, x \in { << 0, << 7, 8 >> >>, << 1, << 9 >> >> } }

FileQueryInformationIrps ==
    { MkIrp("IRP_MJ_QUERY_INFORMATION", "IRP_MN_NONE", f, QueryInformationHeaderLength, 0, 0,
            "none", "FileStandardInformation") : f \in FileIds }

FileSetInformationIrps ==
    { Extend(MkIrp("IRP_MJ_SET_INFORMATION", "IRP_MN_NONE", f, SetInformationHeaderLength + 1, 1, 0,
                   "none", "FileDispositionInformation"),
             [ Delete |-> b ]) : f \in FileIds, b \in BOOLEAN }
      \cup
    { Extend(MkIrp("IRP_MJ_SET_INFORMATION", "IRP_MN_NONE", f,
                   SetInformationHeaderLength + 6 + 2 * (Len(t) + 1), 6 + 2 * (Len(t) + 1), 0,
                   "none", "FileRenameInformation"),
             [ Target |-> t ]) :
        f \in FileIds, t \in { << "c" >>, << "..", "x" >> } }

FileQueryDirectoryIrps ==
    { Extend(MkIrp("IRP_MJ_DIRECTORY_CONTROL", "IRP_MN_QUERY_DIRECTORY", f,
                   QueryDirectoryHeaderLength + x[3], x[3], 0, "none", "FileDirectoryInformation"),
             [ InitialQuery |-> x[1], Pattern |-> x[2] ]) :
        f \in FileIds, x \in { << 1, "*", 4 >>, << 1, "a", 4 >>, << 0, "none", 0 >> } }

\* What the server has been told about an object: the Delete byte of the last
\* successful FileDispositionInformation, and, of the enumeration begun by the
\* last InitialQuery = 1, its wildcard, the names the directory held then and
\* the entries returned since.
NoHistory == [ disposition |-> "none", wildcard |-> "none", listed |-> {}, got |-> << >> ]

\* The values a drive_file_* call moved: the bytes a read put into the
\* response, the EndOfFile of FileStandardInformation, the name of the
\* directory entry encoded.
NoTransfer == [ data |-> << >>, EndOfFile |-> 0, entry |-> "none" ]

\* The state after drive_register_drive_path in sync mode, over InitialDisk.
InitFile ==
    /\ DriveInit /\ ~async
    /\ MapIdle /\ RegIdle /\ CapIdle
    /\ disk = InitialDisk
    /\ objs = << >>
    /\ hist = << >>
    /\ xfer = NoTransfer

\* drive_irp_request in sync mode: drive_process_irp runs inline with the
\* answers h of the file system.
FileDispatched(irp, h) ==
    /\ ~async
    /\ phase = "registered"
    /\ last.seq < MaxFileIrps
    /\ \E r \in { drive_process_irp(irp, h) } :
         /\ files' = r.files
         /\ id_sequence' = r.id_sequence
         /\ heap' = r.heap
         /\ last' = [ seq |-> last.seq + 1, irp |-> irp, error |-> r.error,
                      IoStatus |-> r.IoStatus, output |-> r.output, Complete |-> r.Complete,
                      Discard |-> r.Discard, host |-> h ]
    /\ UNCHANGED << async, IrpQueue, thread, phase, irps, channelError, raceVars, mapVars, regVars, capVars >>

\* The names the directory of object o holds.
Listed(d, o) == { n \in Names : ChildExists(d, o.local_path, n) }

FileCreate ==
    \E irp \in FileCreateIrps :
      \E o \in { FsOpen(disk, irp, id_sequence) } :
        \E a \in { IF o.ok THEN CreateAllocate(o.disk, o.obj, irp.AllocationSize)
                   ELSE [ seekOk |-> TRUE, disk |-> o.disk ] } :
          /\ FileDispatched(irp, [ DefaultHost EXCEPT !.newOk = o.ok, !.lastError = o.err,
                                                      !.seekOk = a.seekOk ])
          /\ disk' = IF last'.Complete = 1 THEN a.disk ELSE o.disk
          /\ objs' = IF o.ok THEN Append(objs, o.obj) ELSE objs
          /\ hist' = IF o.ok THEN Append(hist, NoHistory) ELSE hist
          /\ xfer' = NoTransfer

FileClose ==
    \E irp \in CloseIrps :
      LET file == drive_get_file_by_id(irp.FileId)
      IN  IF file = NULL
            THEN /\ FileDispatched(irp, DefaultHost)
                 /\ xfer' = NoTransfer
                 /\ UNCHANGED << disk, objs, hist >>
            ELSE \E c \in { FsClose(disk, objs[file.obj]) } :
                   /\ FileDispatched(irp, [ DefaultHost EXCEPT !.freeOk = c.ok,
                                                               !.lastError = c.err ])
                   /\ disk' = c.disk
                   /\ xfer' = NoTransfer
                   /\ UNCHANGED << objs, hist >>

FileRead ==
    \E irp \in FileReadIrps :
      LET file == drive_get_file_by_id(irp.FileId)
      IN  IF file = NULL
            THEN /\ FileDispatched(irp, DefaultHost)
                 /\ xfer' = NoTransfer
                 /\ UNCHANGED << disk, objs, hist >>
            ELSE LET o == objs[file.obj]
                     sought == FsSeek(disk, o, irp.Offset)
                     data == IF sought THEN FsRead(disk, o, irp.Offset, irp.VarLength)
                             ELSE << >>
                 IN  /\ FileDispatched(irp,
                          [ DefaultHost EXCEPT
                              !.seekOk = sought,
                              !.lastError = IF sought THEN "ERROR_SUCCESS"
                                            ELSE "ERROR_INVALID_HANDLE",
                              !.readShort = IF sought THEN irp.VarLength - Len(data) ELSE 0 ])
                     /\ xfer' = [ NoTransfer EXCEPT !.data = data ]
                     /\ UNCHANGED << disk, objs, hist >>

FileWrite ==
    \E irp \in FileWriteIrps :
      LET file == drive_get_file_by_id(irp.FileId)
      IN  IF file = NULL
            THEN /\ FileDispatched(irp, DefaultHost)
                 /\ xfer' = NoTransfer
                 /\ UNCHANGED << disk, objs, hist >>
            ELSE LET o == objs[file.obj]
                     sought == FsSeek(disk, o, irp.Offset)
                 IN  /\ FileDispatched(irp,
                          [ DefaultHost EXCEPT
                              !.seekOk = sought,
                              !.lastError = IF sought THEN "ERROR_SUCCESS"
                                            ELSE "ERROR_INVALID_HANDLE" ])
                     /\ disk' = IF sought THEN FsWrite(disk, o, irp.Offset, irp.Data) ELSE disk
                     /\ xfer' = NoTransfer
                     /\ UNCHANGED << objs, hist >>

FileQueryInformation ==
    \E irp \in FileQueryInformationIrps :
      LET file == drive_get_file_by_id(irp.FileId)
      IN  IF file = NULL
            THEN /\ FileDispatched(irp, DefaultHost)
                 /\ xfer' = NoTransfer
                 /\ UNCHANGED << disk, objs, hist >>
            ELSE LET o == objs[file.obj]
                     there == disk[o.local_path].exists
                 IN  /\ FileDispatched(irp,
                          [ DefaultHost EXCEPT
                              !.calleeOk = there,
                              !.lastError = IF there THEN "ERROR_SUCCESS"
                                            ELSE "ERROR_FILE_NOT_FOUND" ])
                     /\ xfer' = [ NoTransfer EXCEPT
                                    !.EndOfFile = IF there THEN Len(disk[o.local_path].data)
                                                  ELSE 0 ]
                     /\ UNCHANGED << disk, objs, hist >>

FileSetInformation ==
    \E irp \in FileSetInformationIrps :
      LET file == drive_get_file_by_id(irp.FileId)
      IN  IF file = NULL
            THEN /\ FileDispatched(irp, DefaultHost)
                 /\ xfer' = NoTransfer
                 /\ UNCHANGED << disk, objs, hist >>
            ELSE \E s \in { FsSetInformation(disk, objs[file.obj], irp) } :
                   /\ FileDispatched(irp, [ DefaultHost EXCEPT !.calleeOk = s.ok,
                                                               !.lastError = s.err ])
                   /\ disk' = s.disk
                   /\ objs' = [ objs EXCEPT ![file.obj] = s.obj ]
                   /\ hist' = IF s.ok /\ irp.FsInformationClass = "FileDispositionInformation"
                                THEN [ hist EXCEPT ![file.obj].disposition =
                                         IF irp.Delete THEN "TRUE" ELSE "FALSE" ]
                              ELSE hist
                   /\ xfer' = NoTransfer

FileQueryDirectory ==
    \E irp \in FileQueryDirectoryIrps :
      LET file == drive_get_file_by_id(irp.FileId)
      IN  IF file = NULL
            THEN /\ FileDispatched(irp, DefaultHost)
                 /\ xfer' = NoTransfer
                 /\ UNCHANGED << disk, objs, hist >>
            ELSE \E q \in { FsQueryDirectory(disk, objs[file.obj], irp.InitialQuery,
                                             irp.Pattern) } :
                   LET begun == IF irp.InitialQuery = 1
                                  THEN [ hist[file.obj] EXCEPT
                                           !.wildcard = irp.Pattern,
                                           !.listed = Listed(disk, objs[file.obj]),
                                           !.got = << >> ]
                                ELSE hist[file.obj]
                   IN  /\ FileDispatched(irp, [ DefaultHost EXCEPT !.calleeOk = q.ok,
                                                                   !.lastError = q.err ])
                       /\ objs' = [ objs EXCEPT ![file.obj] = q.obj ]
                       /\ hist' = [ hist EXCEPT ![file.obj] =
                                      IF q.ok THEN [ begun EXCEPT !.got = Append(@, q.entry) ]
                                      ELSE begun ]
                       /\ xfer' = [ NoTransfer EXCEPT !.entry = q.entry ]
                       /\ UNCHANGED disk

NextFile ==
    \/ FileCreate
    \/ FileClose
    \/ FileRead
    \/ FileWrite
    \/ FileQueryInformation
    \/ FileSetInformation
    \/ FileQueryDirectory

SpecFile == InitFile /\ [][NextFile]_vars


\* -------------------------------------------------------------------- claims

\* The step dispatches an IRP: a handler ran, and last' describes it.
DispatchStep == last'.seq # last.seq

\* The u32 at the head of a response body, little-endian.
HeadUINT32(s) == s[1] + 256 * s[2] + 65536 * s[3] + 16777216 * s[4]

\* The bytes each handler requires of its input, as the claims list them.
RequiredInput(irp) ==
    CASE irp.MajorFunction = "IRP_MJ_CREATE" -> 32 + irp.VarLength
      [] irp.MajorFunction = "IRP_MJ_READ" -> 12
      [] irp.MajorFunction = "IRP_MJ_WRITE" -> 32 + irp.VarLength
      [] irp.MajorFunction \in { "IRP_MJ_QUERY_INFORMATION", "IRP_MJ_QUERY_VOLUME_INFORMATION",
                                 "IRP_MJ_LOCK_CONTROL" } -> 4
      [] irp.MajorFunction = "IRP_MJ_SET_INFORMATION" -> 32
      [] irp.MinorFunction = "IRP_MN_QUERY_DIRECTORY" -> 32 + irp.VarLength
      [] OTHER -> 0

\* The input holds fewer bytes than the handler requires: fewer than the
\* header, or the header and fewer than the variable part it announces.
InputTooShort(irp) == irp.InputLength < RequiredInput(irp)

\* The IRP kinds that name a file of the table.
NamesFile(irp) ==
    \/ irp.MajorFunction \in { "IRP_MJ_READ", "IRP_MJ_WRITE", "IRP_MJ_QUERY_INFORMATION",
                               "IRP_MJ_SET_INFORMATION", "IRP_MJ_CLOSE" }
    \/ irp.MinorFunction = "IRP_MN_QUERY_DIRECTORY"

\* C1: every IRP handed to drive_irp_request gets exactly one of Complete and
\* Discard, exactly once.  Stated for the IRPs the device took charge of
\* (drive_irp_request returned CHANNEL_RC_OK) once nothing more can happen to
\* them: the handler has returned, teardown has drained the queue, or the
\* device is freed.
C1_ExactlyOneCallback ==
    \A n \in DOMAIN irps :
        ( /\ irps[n].rc = "CHANNEL_RC_OK"
          /\ (irps[n].state \in { "returned", "drained" } \/ phase = "freed") )
        => irps[n].Complete + irps[n].Discard = 1

\* C2: an IRP whose input is shorter than its handler requires makes the
\* handler return ERROR_INVALID_DATA with Complete not invoked, nothing
\* written to the output, and the file table and the FileId counter unchanged.
C2_ShortInputDropped ==
    [][ (DispatchStep /\ InputTooShort(last'.irp))
          => /\ last'.error = "ERROR_INVALID_DATA"
             /\ last'.Complete = 0
             /\ last'.output = << >>
             /\ files' = files
             /\ id_sequence' = id_sequence ]_vars

\* C2's case: a Write whose header is complete and whose payload is one byte
\* short was dispatched while a file was open.
C2_Witness ==
    /\ last.seq > 0
    /\ last.irp.MajorFunction = "IRP_MJ_WRITE"
    /\ last.irp.InputLength = 33 /\ last.irp.VarLength = 2
    /\ DOMAIN files # {}

\* C3: in async mode IRPs are dispatched in the order they were posted: when
\* the handler of an IRP starts, every IRP enqueued before it has had its
\* handler run to the end and its Complete or Discard invoked.
C3_FifoDispatch ==
    [][ (async /\ DispatchStep)
          => \A a \in 1 .. (last'.seq - 1) :
                irps[a].state # "rejected"
                  => /\ irps[a].state = "returned"
                     /\ irps[a].Complete + irps[a].Discard = 1 ]_vars

\* C3's case: a Close was dispatched second or later, after the IRP posted
\* before it had returned.
C3_Witness ==
    /\ async
    /\ last.seq >= 2
    /\ last.irp.MajorFunction = "IRP_MJ_CLOSE"
    /\ irps[last.seq - 1].state = "returned"
    /\ irps[last.seq - 1].Complete = 1

\* The step is a Create that succeeded: it allocated a file object and
\* completed with that object's FileId.
CreateSucceeded ==
    /\ DispatchStep
    /\ last'.irp.MajorFunction = "IRP_MJ_CREATE"
    /\ Len(heap') = Len(heap) + 1
    /\ heap'[Len(heap')].reported

\* C4: no successful Create returns or inserts a FileId that is a key of the
\* file table when the Create is dispatched, also after id_sequence wrapped.
C4_FreshFileId ==
    [][ CreateSucceeded
          => /\ HeadUINT32(last'.output) \notin DOMAIN files
             /\ DOMAIN files' = DOMAIN files \cup { HeadUINT32(last'.output) } ]_vars

\* C4's case: the counter wrapped while files stayed open: two Creates
\* succeeded, and a third drew the FileId of an open file.
C4_Witness ==
    /\ Len(heap) = 3
    /\ heap[1].reported /\ heap[2].reported
    /\ heap[3].id = heap[1].id
    /\ heap[1].id \in DOMAIN files
    /\ last.irp.MajorFunction = "IRP_MJ_CREATE"
    /\ last.error = "ERROR_INTERNAL_ERROR"

\* C5: with several async devices on one device manager, every FileId taken
\* from id_sequence goes to at most one Create, under any interleaving.
C5_UniqueFileIds ==
    \A d, e \in 1 .. RaceDevices :
        ( /\ d # e
          /\ rPc[d] \in { "stored", "opened", "failed", "created", "refused" }
          /\ rPc[e] \in { "stored", "opened", "failed", "created", "refused" } )
        => rGot[d] # rGot[e]

\* C6: every key k of the file table maps to a file object whose id is k, and
\* every file object is stored under exactly one key.
C6_KeyIsFileId ==
    /\ \A k \in DOMAIN files :
         /\ files[k].id = k
         /\ files[k].obj \in DOMAIN heap
         /\ heap[files[k].obj].id = k
    /\ \A k, l \in DOMAIN files : files[k].obj = files[l].obj => k = l

\* C6's case: two files are open.
C6_Witness == Cardinality(DOMAIN files) = 2

\* The step is the teardown step that frees the table.
TeardownStep == phase = "free_files" /\ phase' = "free_queue"

\* C7: the key set of the file table changes only by a Create that succeeds
\* (one key more), by Close (one key less) and by teardown; every other IRP,
\* and a Create that does not succeed, leaves it unchanged.
C7_KeySetFrame ==
    [][ \/ DOMAIN files' = DOMAIN files
        \/ /\ CreateSucceeded
           /\ Cardinality(DOMAIN files') = Cardinality(DOMAIN files) + 1
           /\ DOMAIN files \subseteq DOMAIN files'
        \/ /\ DispatchStep
           /\ last'.irp.MajorFunction = "IRP_MJ_CLOSE"
           /\ DOMAIN files' = DOMAIN files \ { last'.irp.FileId }
        \/ TeardownStep ]_vars

\* What a response without file data looks like for each kind.
NoFileData(l) ==
    CASE l.irp.MajorFunction = "IRP_MJ_READ" -> l.output = << 0, 0, 0, 0 >>
      [] l.irp.MajorFunction = "IRP_MJ_WRITE" -> l.output = << 0, 0, 0, 0, 0 >>
      [] l.irp.MajorFunction = "IRP_MJ_QUERY_INFORMATION" -> l.output = << >>
      [] l.irp.MajorFunction = "IRP_MJ_SET_INFORMATION" ->
           l.output = << l.irp.VarLength, 0, 0, 0 >>
      [] l.irp.MajorFunction = "IRP_MJ_CLOSE" -> l.output = << 0, 0, 0, 0, 0 >>
      [] OTHER -> l.output = << 0, 0, 0, 0 >>

\* The response to an IRP that names no open file.
UnsuccessfulResponse(l) ==
    /\ l.Complete = 1 /\ l.Discard = 0
    /\ l.IoStatus = "STATUS_UNSUCCESSFUL"
    /\ NoFileData(l)

\* C8 as stated: every Read, Write, QueryInformation, SetInformation,
\* QueryDirectory or Close naming a FileId that is not in the table (closed
\* and not issued again, or never issued) is completed with
\* STATUS_UNSUCCESSFUL and no file data.
C8_StaleIdAlwaysCompleted ==
    [][ (DispatchStep /\ NamesFile(last'.irp) /\ last'.irp.FileId \notin DOMAIN files)
          => UnsuccessfulResponse(last') ]_vars

\* C8 amended: such an IRP is completed with STATUS_UNSUCCESSFUL and no file
\* data when its input holds the bytes its handler requires and, for Read, the
\* output stream can grow by the 4 bytes of the length; a truncated one
\* returns ERROR_INVALID_DATA and a Read that cannot grow its output returns
\* ERROR_INTERNAL_ERROR, both without a response.  In no case is the table
\* touched.
C8_StaleIdUnsuccessful ==
    [][ (DispatchStep /\ NamesFile(last'.irp) /\ last'.irp.FileId \notin DOMAIN files)
          => /\ files' = files
             /\ IF InputTooShort(last'.irp)
                  THEN /\ last'.error = "ERROR_INVALID_DATA"
                       /\ last'.Complete = 0 /\ last'.output = << >>
                  ELSE IF last'.irp.MajorFunction = "IRP_MJ_READ" /\ ~last'.host.capOk
                  THEN /\ last'.error = "ERROR_INTERNAL_ERROR"
                       /\ last'.Complete = 0 /\ last'.output = << >>
                  ELSE UnsuccessfulResponse(last') ]_vars

\* C8's case: a file was created and closed, and a Read naming its FileId
\* was dispatched afterwards.
C8_Witness ==
    /\ Len(heap) = 1 /\ heap[1].reported /\ heap[1].frees = 1
    /\ last.irp.MajorFunction = "IRP_MJ_READ"
    /\ last.irp.FileId = heap[1].id
    /\ last.irp.VarLength = 2
    /\ last.IoStatus = "STATUS_UNSUCCESSFUL"

\* C9: Close is always completed with a body of exactly 5 zero bytes.  A
\* FileId of the table is removed whether or not the release succeeds, with
\* STATUS_SUCCESS after a release that succeeded and the mapped host error
\* otherwise; a FileId not in the table leaves the table unchanged, with
\* STATUS_UNSUCCESSFUL.
C9_Close ==
    [][ (DispatchStep /\ last'.irp.MajorFunction = "IRP_MJ_CLOSE")
          => /\ last'.Complete = 1 /\ last'.Discard = 0
             /\ last'.output = << 0, 0, 0, 0, 0 >>
             /\ IF last'.irp.FileId \in DOMAIN files
                  THEN /\ DOMAIN files' = DOMAIN files \ { last'.irp.FileId }
                       /\ \A k \in DOMAIN files' : files'[k] = files[k]
                       /\ last'.IoStatus =
                            IF last'.host.freeOk THEN "STATUS_SUCCESS"
                            ELSE drive_map_windows_err(last'.host.lastError)
                  ELSE /\ files' = files
                       /\ last'.IoStatus = "STATUS_UNSUCCESSFUL" ]_vars

\* C9's case: a Close of an open file whose release failed with a directory
\* that is not empty.
C9_Witness ==
    /\ last.irp.MajorFunction = "IRP_MJ_CLOSE"
    /\ ~last.host.freeOk
    /\ last.IoStatus = "STATUS_DIRECTORY_NOT_EMPTY"
    /\ Len(heap) > 0 /\ heap[Len(heap)].frees = 1

\* Teardown has finished: drive_free has returned.
TeardownFinished == phase \in { "freed", "free_failed" }

\* C10: every file object of a successful Create is destroyed exactly once
\* over the life of the device: never twice, and once teardown has finished
\* none is still allocated.
C10_DestroyedExactlyOnce ==
    \A o \in DOMAIN heap :
        heap[o].reported
          => /\ heap[o].frees <= 1
             /\ TeardownFinished => heap[o].frees = 1

\* C11: drive_free destroys every file object still in the table and releases
\* the queue and the device, in sync mode as in async mode: when it has
\* returned, drive_free_int has run to its end, the table is empty and the
\* queue is gone.
C11_TeardownFreesAll ==
    TeardownFinished
      => /\ phase = "freed"
         /\ DOMAIN files = {}
         /\ IrpQueue = << >>

\* C12: the worker processes QUIT after every IRP posted ahead of it: once
\* teardown has posted QUIT and the worker has exited without a failure of the
\* queue, no IRP is left in the queue undispatched.
C12_QuitAfterEveryIrp ==
    ( /\ phase # "registered"
      /\ thread = "exited"
      /\ channelError = "CHANNEL_RC_OK" )
    => \A i \in DOMAIN IrpQueue : IrpQueue[i].id # "IRP"

\* The step is the teardown step that frees the queue.
DrainStep == phase = "free_queue" /\ phase' = "freed"

\* The IRP with post number n is in the queue.
InQueue(n) == \E i \in DOMAIN IrpQueue : IrpQueue[i].id = "IRP" /\ IrpQueue[i].seq = n

\* C13: the teardown drain invokes Discard exactly once, and Complete never,
\* for every IRP still in the queue; an IRP the worker took from the queue
\* gets no callback from the drain, and neither does the QUIT message.
C13_DrainDiscardsOnce ==
    [][ DrainStep
          => /\ DOMAIN irps' = DOMAIN irps
             /\ \A n \in DOMAIN irps :
                  IF InQueue(n)
                    THEN /\ irps[n].Discard = 0
                         /\ irps'[n].Discard = 1
                         /\ irps'[n].Complete = 0
                    ELSE /\ irps'[n].Discard = irps[n].Discard
                         /\ irps'[n].Complete = irps[n].Complete ]_vars

\* C13's case: teardown has drained a queue that held an IRP, after the worker
\* had taken an earlier IRP and completed it.
C13_Witness ==
    /\ phase = "freed"
    /\ \E n \in DOMAIN irps :
         irps[n].state = "drained" /\ irps[n].Discard = 1 /\ irps[n].Complete = 0
    /\ \E n \in DOMAIN irps :
         irps[n].state = "returned" /\ irps[n].Complete = 1 /\ irps[n].Discard = 0

\* C14: teardown drains the queue before it frees the files: when teardown
\* destroys the file objects of the table, no undelivered IRP is waiting in
\* the queue for its Discard.
C14_DrainBeforeFree ==
    [][ (TeardownStep /\ DOMAIN files # {})
          => \A i \in DOMAIN IrpQueue : IrpQueue[i].id # "IRP" ]_vars

\* C15: in async mode the worker keeps running after a handler returned a
\* non-zero dispatcher code.
C15_WorkerSurvivesIrpError ==
    [][ (async /\ DispatchStep /\ last'.error # "CHANNEL_RC_OK")
          => thread' = "running" ]_vars

\* C16 as stated: in sync mode drive_irp_request has run the handler when it
\* returns, and returns the code the dispatcher returned for the IRP.
C16_SyncReturnsDispatcherCode ==
    [][ (~async /\ DispatchStep)
          => /\ Len(irps') = Len(irps) + 1
             /\ last'.seq = Len(irps')
             /\ irps'[last'.seq].state = "returned"
             /\ irps'[last'.seq].rc = last'.error ]_vars

\* C16 amended: in sync mode drive_irp_request has run the handler when it
\* returns, the IRP having got at most one callback, and returns
\* CHANNEL_RC_OK when the dispatcher returned CHANNEL_RC_OK and
\* ERROR_INTERNAL_ERROR when the dispatcher returned any other code.
C16_SyncReturn ==
    [][ (~async /\ DispatchStep)
          => /\ Len(irps') = Len(irps) + 1
             /\ last'.seq = Len(irps')
             /\ irps'[last'.seq].state = "returned"
             /\ irps'[last'.seq].Complete = last'.Complete
             /\ irps'[last'.seq].Discard = last'.Discard
             /\ last'.Complete + last'.Discard <= 1
             /\ irps'[last'.seq].rc =
                  IF last'.error = "CHANNEL_RC_OK" THEN "CHANNEL_RC_OK"
                  ELSE "ERROR_INTERNAL_ERROR" ]_vars

\* C16's case: a sync device dispatched an IRP whose handler returned
\* ERROR_INVALID_DATA, and drive_irp_request returned ERROR_INTERNAL_ERROR.
C16_Witness ==
    /\ ~async
    /\ last.seq > 0
    /\ last.error = "ERROR_INVALID_DATA"
    /\ irps[last.seq].rc = "ERROR_INTERNAL_ERROR"

\* The step is a call of drive_irp_request on an async device.
AsyncPostStep == async /\ Len(irps') = Len(irps) + 1

\* C17: in async mode drive_irp_request only enqueues: no handler runs, no
\* callback is invoked, the table is not touched; it returns CHANNEL_RC_OK
\* with the IRP at the tail of the queue, or ERROR_INTERNAL_ERROR with the
\* queue as it was.  The mode never changes after registration, and a worker
\* thread exists exactly for an async device.
C17_AsyncOnlyEnqueues ==
    [][ /\ async' = async
        /\ (thread = "none") <=> ~async
        /\ (thread' = "none") <=> ~async'
        /\ AsyncPostStep
             => /\ files' = files /\ heap' = heap /\ id_sequence' = id_sequence
                /\ last' = last
                /\ \A m \in DOMAIN irps : irps'[m] = irps[m]
                /\ irps'[Len(irps')].Complete = 0
                /\ irps'[Len(irps')].Discard = 0
                /\ \/ /\ irps'[Len(irps')].rc = "CHANNEL_RC_OK"
                      /\ Len(IrpQueue') = Len(IrpQueue) + 1
                      /\ SubSeq(IrpQueue', 1, Len(IrpQueue)) = IrpQueue
                      /\ IrpQueue'[Len(IrpQueue')].id = "IRP"
                      /\ IrpQueue'[Len(IrpQueue')].seq = Len(irps')
                   \/ /\ irps'[Len(irps')].rc = "ERROR_INTERNAL_ERROR"
                      /\ IrpQueue' = IrpQueue ]_vars

\* C17's case: an async device with a file open, on which one call enqueued
\* its IRP and another failed to.
C17_Witness ==
    /\ async
    /\ DOMAIN files # {}
    /\ \E n \in DOMAIN irps :
         irps[n].state = "rejected" /\ irps[n].rc = "ERROR_INTERNAL_ERROR"
    /\ \E n \in DOMAIN irps : irps[n].state = "queued" /\ InQueue(n)

\* The major functions of the routing table.
RoutedMajors ==
    { "IRP_MJ_CREATE", "IRP_MJ_CLOSE", "IRP_MJ_READ", "IRP_MJ_WRITE",
      "IRP_MJ_QUERY_INFORMATION", "IRP_MJ_SET_INFORMATION",
      "IRP_MJ_QUERY_VOLUME_INFORMATION", "IRP_MJ_LOCK_CONTROL",
      "IRP_MJ_DIRECTORY_CONTROL", "IRP_MJ_DEVICE_CONTROL" }

\* The handler the routing table names for the IRP, run on the IRP.
RoutedHandler(irp, h) ==
    CASE irp.MajorFunction = "IRP_MJ_CREATE" -> drive_process_irp_create(irp, h)
      [] irp.MajorFunction = "IRP_MJ_CLOSE" -> drive_process_irp_close(irp, h)
      [] irp.MajorFunction = "IRP_MJ_READ" -> drive_process_irp_read(irp, h)
      [] irp.MajorFunction = "IRP_MJ_WRITE" -> drive_process_irp_write(irp, h)
      [] irp.MajorFunction = "IRP_MJ_QUERY_INFORMATION" ->
           drive_process_irp_query_information(irp, h)
      [] irp.MajorFunction = "IRP_MJ_SET_INFORMATION" ->
           drive_process_irp_set_information(irp, h)
      [] irp.MajorFunction = "IRP_MJ_QUERY_VOLUME_INFORMATION" ->
           drive_process_irp_query_volume_information(irp, h)
      [] irp.MajorFunction = "IRP_MJ_DIRECTORY_CONTROL"
           /\ irp.MinorFunction = "IRP_MN_QUERY_DIRECTORY" ->
           drive_process_irp_query_directory(irp, h)

\* The IRP was completed with the status and the body.
CompletedWith(l, status, body) ==
    /\ l.Complete = 1 /\ l.Discard = 0
    /\ l.IoStatus = status
    /\ l.output = body

\* What C18 says of the IRPs that reach no file handler; lockAny tells
\* whether LOCK_CONTROL is taken with any input or with the 4 bytes its
\* handler reads.
RoutedAsStated(lockAny) ==
    DispatchStep =>
      LET irp == last'.irp
      IN  CASE irp.MajorFunction \notin RoutedMajors ->
                 CompletedWith(last', "STATUS_NOT_SUPPORTED", << >>) /\ files' = files
            [] irp.MajorFunction = "IRP_MJ_DEVICE_CONTROL" ->
                 CompletedWith(last', "STATUS_SUCCESS", << 0, 0, 0, 0 >>) /\ files' = files
            [] irp.MajorFunction = "IRP_MJ_LOCK_CONTROL" ->
                 IF lockAny \/ ~InputTooShort(irp)
                   THEN /\ last'.Complete = 1 /\ last'.Discard = 0
                        /\ last'.IoStatus = "STATUS_SUCCESS"
                        /\ files' = files /\ heap' = heap
                   ELSE /\ last'.error = "ERROR_INVALID_DATA"
                        /\ last'.Complete = 0 /\ last'.Discard = 0
                        /\ files' = files /\ heap' = heap
            [] irp.MajorFunction = "IRP_MJ_DIRECTORY_CONTROL"
                 /\ irp.MinorFunction = "IRP_MN_NOTIFY_CHANGE_DIRECTORY" ->
                 last'.Discard = 1
            [] irp.MajorFunction = "IRP_MJ_DIRECTORY_CONTROL"
                 /\ irp.MinorFunction # "IRP_MN_QUERY_DIRECTORY" ->
                 /\ last'.Complete = 1 /\ last'.Discard = 0
                 /\ last'.IoStatus = "STATUS_NOT_SUPPORTED"
                 /\ files' = files
            [] OTHER ->
                 \E r \in { RoutedHandler(irp, last'.host) } :
                   /\ last'.error = r.error /\ last'.IoStatus = r.IoStatus
                   /\ last'.output = r.output
                   /\ last'.Complete = r.Complete /\ last'.Discard = r.Discard
                   /\ files' = r.files /\ heap' = r.heap /\ id_sequence' = r.id_sequence

\* C18 as stated: every IRP goes to the handler the routing table names for
\* its MajorFunction; an unrouted MajorFunction is completed with
\* STATUS_NOT_SUPPORTED and an empty body, DEVICE_CONTROL with STATUS_SUCCESS
\* and OutputBufferLength 0 for any input, LOCK_CONTROL with STATUS_SUCCESS
\* and no file touched, DIRECTORY_CONTROL with another minor function with
\* STATUS_NOT_SUPPORTED.
C18_RoutingAsStated == [][ RoutedAsStated(TRUE) ]_vars

\* C18 amended: the same, with LOCK_CONTROL completed when its input holds at
\* least 4 bytes and returning ERROR_INVALID_DATA without a response, and
\* without touching a file, when it holds fewer.
C18_Routing == [][ RoutedAsStated(FALSE) ]_vars

\* C18's case: a DEVICE_CONTROL with 32 bytes of input was completed while a
\* file was open.
C18_Witness ==
    /\ last.irp.MajorFunction = "IRP_MJ_DEVICE_CONTROL"
    /\ last.irp.InputLength = 32
    /\ last.Complete = 1
    /\ last.output = << 0, 0, 0, 0 >>
    /\ DOMAIN files # {}

\* C19: a NOTIFY_CHANGE_DIRECTORY IRP is dropped: Discard is invoked once,
\* Complete never, no response body is written, and the table and the file
\* objects are unchanged.
C19_NotifyChangeDropped ==
    [][ ( /\ DispatchStep
          /\ last'.irp.MajorFunction = "IRP_MJ_DIRECTORY_CONTROL"
          /\ last'.irp.MinorFunction = "IRP_MN_NOTIFY_CHANGE_DIRECTORY" )
          => /\ last'.Discard = 1
             /\ last'.Complete = 0
             /\ last'.output = << >>
             /\ files' = files
             /\ heap' = heap
             /\ id_sequence' = id_sequence ]_vars

\* C19's case: a NOTIFY_CHANGE_DIRECTORY was dispatched while a file was open.
C19_Witness ==
    /\ last.irp.MinorFunction = "IRP_MN_NOTIFY_CHANGE_DIRECTORY"
    /\ last.Discard = 1
    /\ DOMAIN files # {}

\* The Information value the claim gives for each CreateDisposition.
StatedInformation(disposition) ==
    IF disposition \in { "FILE_SUPERSEDE", "FILE_OPEN", "FILE_CREATE", "FILE_OVERWRITE" }
      THEN FILE_SUPERSEDED
    ELSE IF disposition = "FILE_OPEN_IF" THEN FILE_OPENED
    ELSE IF disposition = "FILE_OVERWRITE_IF" THEN FILE_OVERWRITTEN
    ELSE 0

\* C20: the response of a successful Create is the newly inserted FileId
\* followed by the Information byte of its CreateDisposition, with
\* STATUS_SUCCESS.
C20_CreateResponse ==
    [][ CreateSucceeded
          => /\ last'.Complete = 1
             /\ last'.IoStatus = "STATUS_SUCCESS"
             /\ Len(last'.output) = 5
             /\ DOMAIN files' \ DOMAIN files = { HeadUINT32(last'.output) }
             /\ last'.output[5] = StatedInformation(last'.irp.CreateDisposition) ]_vars

\* C20's case: a Create with FILE_OVERWRITE_IF succeeded and answered
\* FILE_OVERWRITTEN.
C20_Witness ==
    /\ last.irp.MajorFunction = "IRP_MJ_CREATE"
    /\ last.irp.CreateDisposition = "FILE_OVERWRITE_IF"
    /\ last.Complete = 1
    /\ last.output = << 1, 0, 0, 0, FILE_OVERWRITTEN >>
    /\ 1 \in DOMAIN files

\* C21: a Create whose host open fails is still completed, with FileId 0,
\* Information 0 and the status mapped from the host error, and adds no entry
\* to the table.
C21_CreateOpenFailed ==
    [][ ( /\ DispatchStep
          /\ last'.irp.MajorFunction = "IRP_MJ_CREATE"
          /\ ~InputTooShort(last'.irp)
          /\ ~last'.host.newOk )
          => /\ last'.Complete = 1 /\ last'.Discard = 0
             /\ last'.output = << 0, 0, 0, 0, 0 >>
             /\ last'.IoStatus = drive_map_windows_err(last'.host.lastError)
             /\ files' = files
             /\ heap' = heap ]_vars

\* C21's case: with a file open, a Create failed on the host with
\* ERROR_FILE_NOT_FOUND and was completed with STATUS_NO_SUCH_FILE.
C21_Witness ==
    /\ last.irp.MajorFunction = "IRP_MJ_CREATE"
    /\ ~last.host.newOk
    /\ last.host.lastError = "ERROR_FILE_NOT_FOUND"
    /\ last.IoStatus = "STATUS_NO_SUCH_FILE"
    /\ last.Complete = 1
    /\ DOMAIN files # {}

\* A Write that was answered: dispatched with sufficient input and completed.
WriteAnswered ==
    /\ DispatchStep
    /\ last'.irp.MajorFunction = "IRP_MJ_WRITE"
    /\ last'.Complete = 1

\* The body of a Write response: a u32 Length and one zero padding byte.
WriteBody(l) == Len(l.output) = 5 /\ l.output[5] = 0

\* C27: the body is a u32 Length and one padding
\* byte; Length is the requested Length when the seek and the write succeeded,
\* and 0 with a failure status when the FileId is unknown, the seek fails or the
\* write fails or is short.
C27_WriteResponseAsStated ==
    [][ WriteAnswered
          => /\ WriteBody(last')
             /\ IF /\ drive_get_file_by_id(last'.irp.FileId) # NULL
                   /\ last'.host.seekOk
                   /\ last'.host.writeOk
                  THEN HeadUINT32(last'.output) = last'.irp.VarLength
                  ELSE /\ HeadUINT32(last'.output) = 0
                       /\ last'.IoStatus # "STATUS_SUCCESS" ]_vars

\* What drive_process_irp_write guarantees: the body is a u32 Length and one
\* zero padding byte.  Length is the requested Length when the seek and the
\* write succeeded.  It is 0 when the FileId is unknown, with
\* STATUS_UNSUCCESSFUL, and when the seek fails or the write fails or is short,
\* with the status mapped from GetLastError(), which is STATUS_SUCCESS when the
\* failed call left the last error 0.
WriteResponseOfCode ==
    [][ WriteAnswered
          => /\ WriteBody(last')
             /\ IF drive_get_file_by_id(last'.irp.FileId) = NULL
                  THEN /\ HeadUINT32(last'.output) = 0
                       /\ last'.IoStatus = "STATUS_UNSUCCESSFUL"
                  ELSE IF last'.host.seekOk /\ last'.host.writeOk
                  THEN /\ HeadUINT32(last'.output) = last'.irp.VarLength
                       /\ last'.IoStatus = "STATUS_SUCCESS"
                  ELSE /\ HeadUINT32(last'.output) = 0
                       /\ last'.IoStatus = drive_map_windows_err(last'.host.lastError)
                       /\ ( last'.host.lastError # "ERROR_SUCCESS"
                              => last'.IoStatus # "STATUS_SUCCESS" ) ]_vars

\* A Write of two bytes to an open file whose write failed on the host was
\* answered with Length 0.
WriteFailureAnswered ==
    /\ last.irp.MajorFunction = "IRP_MJ_WRITE"
    /\ last.irp.VarLength = 2
    /\ last.irp.FileId \in DOMAIN files
    /\ ~last.host.writeOk
    /\ last.Complete = 1
    /\ last.output = << 0, 0, 0, 0, 0 >>

\* A Read that was answered: dispatched with sufficient input and completed.
ReadAnswered ==
    /\ DispatchStep
    /\ last'.irp.MajorFunction = "IRP_MJ_READ"
    /\ last'.Complete = 1

\* The body of a Read response: a u32 ActualLength, then exactly ActualLength
\* bytes, at most the requested Length.
ReadBody(l) ==
    /\ Len(l.output) >= 4
    /\ Len(l.output) = 4 + HeadUINT32(l.output)
    /\ HeadUINT32(l.output) <= l.irp.VarLength

\* A Read met an error: the FileId is unknown, the seek failed or the read failed.
ReadError(l, file) ==
    \/ file = NULL
    \/ ~l.host.seekOk
    \/ ( l.irp.VarLength # 0 /\ ~l.host.readOk )

\* C28: a u32 ActualLength and exactly that many
\* bytes, at most the requested Length; a short read is a success; on every
\* error ActualLength is 0, no data follows and the status is a failure status.
C28_ReadResponseAsStated ==
    [][ ReadAnswered
          => /\ ReadBody(last')
             /\ IF ReadError(last', drive_get_file_by_id(last'.irp.FileId))
                  THEN /\ last'.output = << 0, 0, 0, 0 >>
                       /\ last'.IoStatus # "STATUS_SUCCESS"
                  ELSE last'.IoStatus = "STATUS_SUCCESS" ]_vars

\* What drive_process_irp_read guarantees: the body is a u32 ActualLength and
\* exactly ActualLength bytes, at most the requested Length; a short read is a
\* success.  On every error ActualLength is 0 and no data follows; the status is
\* STATUS_UNSUCCESSFUL for an unknown FileId and the status mapped from
\* GetLastError() for a failed seek or read, which is STATUS_SUCCESS when the
\* failed call left the last error 0.
ReadResponseOfCode ==
    [][ ReadAnswered
          => /\ ReadBody(last')
             /\ IF drive_get_file_by_id(last'.irp.FileId) = NULL
                  THEN /\ last'.output = << 0, 0, 0, 0 >>
                       /\ last'.IoStatus = "STATUS_UNSUCCESSFUL"
                  ELSE IF ReadError(last', drive_get_file_by_id(last'.irp.FileId))
                  THEN /\ last'.output = << 0, 0, 0, 0 >>
                       /\ last'.IoStatus = drive_map_windows_err(last'.host.lastError)
                       /\ ( last'.host.lastError # "ERROR_SUCCESS"
                              => last'.IoStatus # "STATUS_SUCCESS" )
                  ELSE /\ last'.IoStatus = "STATUS_SUCCESS"
                       /\ HeadUINT32(last'.output)
                            = last'.irp.VarLength - last'.host.readShort ]_vars

\* A Read of two bytes from an open file came back one byte short and was
\* answered with success, ActualLength 1 and one byte.
ShortReadAnswered ==
    /\ last.irp.MajorFunction = "IRP_MJ_READ"
    /\ last.irp.VarLength = 2
    /\ last.host.readShort = 1
    /\ last.Complete = 1
    /\ last.IoStatus = "STATUS_SUCCESS"
    /\ HeadUINT32(last.output) = 1
    /\ Len(last.output) = 5

\* The classes C29 lists as supported.
StatedVolumeClasses ==
    { "FileFsVolumeInformation", "FileFsSizeInformation", "FileFsAttributeInformation",
      "FileFsFullSizeInformation", "FileFsDeviceInformation" }

\* C29: QueryVolumeInformation does not depend on the FileId and never changes
\* the table; for each supported class the u32 Length at the head of the
\* response equals the number of body bytes after it; for any other class the
\* IRP is still completed, with Length 0 and STATUS_UNSUCCESSFUL.
C29_QueryVolume ==
    [][ ( /\ DispatchStep
          /\ last'.irp.MajorFunction = "IRP_MJ_QUERY_VOLUME_INFORMATION"
          /\ ~InputTooShort(last'.irp) )
          => /\ files' = files /\ heap' = heap /\ id_sequence' = id_sequence
             /\ \A f \in FileIds :
                  \E r \in { drive_process_irp_query_volume_information(
                               [ last'.irp EXCEPT !.FileId = f ], last'.host) } :
                      /\ r.output = last'.output
                      /\ r.IoStatus = last'.IoStatus
                      /\ r.Complete = last'.Complete
                      /\ r.error = last'.error
             /\ IF last'.irp.FsInformationClass \in StatedVolumeClasses
                  THEN last'.Complete = 1
                         => /\ Len(last'.output) > 4
                            /\ HeadUINT32(last'.output) = Len(last'.output) - 4
                            /\ last'.IoStatus = "STATUS_SUCCESS"
                  ELSE /\ last'.Complete = 1
                       /\ last'.output = << 0, 0, 0, 0 >>
                       /\ last'.IoStatus = "STATUS_UNSUCCESSFUL" ]_vars

\* C29's case: a FileFsVolumeInformation query naming FileId 1 was answered
\* with Length 33 and 33 body bytes while a file is open under that FileId.
C29_Witness ==
    /\ last.irp.MajorFunction = "IRP_MJ_QUERY_VOLUME_INFORMATION"
    /\ last.irp.FsInformationClass = "FileFsVolumeInformation"
    /\ last.irp.FileId = 1
    /\ 1 \in DOMAIN files
    /\ last.Complete = 1
    /\ HeadUINT32(last.output) = 33
    /\ Len(last.output) = 37

\* The NT statuses of the claims' table.
StatedStatuses ==
    { "STATUS_SUCCESS", "STATUS_ACCESS_DENIED", "STATUS_NO_SUCH_FILE",
      "STATUS_OBJECT_PATH_NOT_FOUND", "STATUS_OBJECT_NAME_COLLISION",
      "STATUS_DIRECTORY_NOT_EMPTY", "STATUS_NOT_A_DIRECTORY", "STATUS_NO_MORE_FILES",
      "STATUS_INVALID_HANDLE", "STATUS_DEVICE_BUSY", "STATUS_NO_SUCH_DEVICE",
      "STATUS_UNSUCCESSFUL" }

\* The table C23 states, as pairs of host code and NT status.
StatedMapping ==
    { << "ERROR_SUCCESS", "STATUS_SUCCESS" >>,
      << "ERROR_ACCESS_DENIED", "STATUS_ACCESS_DENIED" >>,
      << "ERROR_SHARING_VIOLATION", "STATUS_ACCESS_DENIED" >>,
      << "ERROR_FILE_NOT_FOUND", "STATUS_NO_SUCH_FILE" >>,
      << "ERROR_INVALID_NAME", "STATUS_NO_SUCH_FILE" >>,
      << "ERROR_PATH_NOT_FOUND", "STATUS_OBJECT_PATH_NOT_FOUND" >>,
      << "ERROR_FILE_EXISTS", "STATUS_OBJECT_NAME_COLLISION" >>,
      << "ERROR_ALREADY_EXISTS", "STATUS_OBJECT_NAME_COLLISION" >>,
      << "ERROR_DIR_NOT_EMPTY", "STATUS_DIRECTORY_NOT_EMPTY" >>,
      << "ERROR_DIRECTORY", "STATUS_NOT_A_DIRECTORY" >>,
      << "ERROR_NO_MORE_FILES", "STATUS_NO_MORE_FILES" >>,
      << "ERROR_INVALID_HANDLE", "STATUS_INVALID_HANDLE" >>,
      << "ERROR_BUSY_DRIVE", "STATUS_DEVICE_BUSY" >>,
      << "ERROR_INVALID_DRIVE", "STATUS_NO_SUCH_DEVICE" >>,
      << "ERROR_NOT_READY", "STATUS_NO_SUCH_DEVICE" >> }

\* C23: the error mapper is a total function with the stated table: each named
\* host code gives its stated status and every other code gives
\* STATUS_UNSUCCESSFUL; so a recorded host failure leaves STATUS_SUCCESS only
\* when the host error code is 0.
C23_ErrorMapper ==
    mStatus # "none"
      => /\ mStatus \in StatedStatuses
         /\ \A pair \in StatedMapping : mErrno = pair[1] => mStatus = pair[2]
         /\ ( \A pair \in StatedMapping : mErrno # pair[1] ) => mStatus = "STATUS_UNSUCCESSFUL"
         /\ mStatus = "STATUS_SUCCESS" => mErrno = "ERROR_SUCCESS"

\* C23's case: the read handler recorded ERROR_NOT_READY and left
\* STATUS_NO_SUCH_DEVICE.
C23_Witness ==
    /\ mSite = "read_read"
    /\ mErrno = "ERROR_NOT_READY"
    /\ mStatus = "STATUS_NO_SUCH_DEVICE"

\* A Create that was answered with success.
FileCreated(l) ==
    /\ l.irp.MajorFunction = "IRP_MJ_CREATE"
    /\ l.Complete = 1
    /\ l.IoStatus = "STATUS_SUCCESS"

Range(s) == { s[i] : i \in 1 .. Len(s) }

\* A QueryDirectory answered for an open directory that is still there.
DirectoryQueried ==
    /\ DispatchStep
    /\ last'.irp.MinorFunction = "IRP_MN_QUERY_DIRECTORY"
    /\ last'.Complete = 1
    /\ drive_get_file_by_id(last'.irp.FileId) # NULL
    /\ objs[files[last'.irp.FileId].obj].dir
    /\ disk[objs[files[last'.irp.FileId].obj].local_path].exists

\* C24: on an open directory, after InitialQuery = 1 stored a wildcard, the
\* successive QueryDirectory requests return each matching entry once, one per
\* successful response, and then STATUS_NO_MORE_FILES with a zero body length;
\* a new InitialQuery = 1 starts again from the first entry.  Stated for a
\* directory whose entries did not change since the InitialQuery = 1.
C24_Enumeration ==
    [][ DirectoryQueried
          => LET k == files[last'.irp.FileId].obj
                 initial == last'.irp.InitialQuery = 1
                 wildcard == IF initial THEN last'.irp.Pattern ELSE hist[k].wildcard
                 listed == IF initial THEN Listed(disk, objs[k]) ELSE hist[k].listed
                 got == IF initial THEN {} ELSE Range(hist[k].got)
                 matching == { n \in listed : Match(wildcard, n) }
             IN  ( wildcard # "none" /\ Listed(disk, objs[k]) = listed )
                   => IF got = matching
                        THEN /\ last'.IoStatus = "STATUS_NO_MORE_FILES"
                             /\ last'.output = << 0, 0, 0, 0 >>
                        ELSE /\ last'.IoStatus = "STATUS_SUCCESS"
                             /\ HeadUINT32(last'.output) > 0
                             /\ xfer'.entry \in matching \ got
                             /\ Len(hist'[k].got) = Cardinality(got) + 1 ]_vars

\* C24's case: the enumeration of "*" over a directory holding a and b
\* returned a, then b, and the third request got STATUS_NO_MORE_FILES.
C24_Witness ==
    /\ last.irp.MinorFunction = "IRP_MN_QUERY_DIRECTORY"
    /\ last.irp.InitialQuery = 0
    /\ last.Complete = 1
    /\ last.IoStatus = "STATUS_NO_MORE_FILES"
    /\ last.irp.FileId \in DOMAIN files
    /\ hist[files[last.irp.FileId].obj].wildcard = "*"
    /\ hist[files[last.irp.FileId].obj].got = << "a", "b" >>

\* The wire path has a ".." component.
HasDotDot(wire_path) == \E i \in 1 .. Len(wire_path) : wire_path[i] = ".."

\* The local path lies beneath root_path.
Beneath(path) ==
    /\ Len(path) >= Len(root_path)
    /\ SubSeq(path, 1, Len(root_path)) = root_path

\* The local path a wire path names when every ".." is followed.
Named(wire_path) == WalkFree(root_path, root_path, wire_path).path

\* C25: for a wire path with ".." components given to Create, or as the target
\* of a FileRenameInformation, either the path it resolves to lies beneath
\* root_path, or the operation fails with STATUS_ACCESS_DENIED and opens,
\* creates and renames nothing; no file object ever has a path outside
\* root_path and nothing outside root_path is changed.
C25_Containment ==
    [][ DispatchStep
          => /\ ( /\ last'.irp.MajorFunction = "IRP_MJ_CREATE"
                  /\ last'.Complete = 1
                  /\ HasDotDot(last'.irp.Path) )
                  => \/ Beneath(Named(last'.irp.Path))
                     \/ /\ last'.IoStatus = "STATUS_ACCESS_DENIED"
                        /\ last'.output = << 0, 0, 0, 0, 0 >>
                        /\ files' = files /\ objs' = objs /\ disk' = disk
             /\ ( /\ last'.irp.MajorFunction = "IRP_MJ_SET_INFORMATION"
                  /\ last'.irp.FsInformationClass = "FileRenameInformation"
                  /\ last'.Complete = 1
                  /\ drive_get_file_by_id(last'.irp.FileId) # NULL
                  /\ HasDotDot(last'.irp.Target) )
                  => \/ Beneath(Named(last'.irp.Target))
                     \/ /\ last'.IoStatus = "STATUS_ACCESS_DENIED"
                        /\ files' = files /\ objs' = objs /\ disk' = disk
             /\ disk'[Outside] = disk[Outside]
             /\ \A k \in 1 .. Len(objs') : Beneath(objs'[k].local_path) ]_vars

\* C25's case: with a file open, a Create of the wire path ..\x was refused
\* with STATUS_ACCESS_DENIED and FileId 0.
C25_Witness ==
    /\ last.irp.MajorFunction = "IRP_MJ_CREATE"
    /\ last.irp.Path = << "..", "x" >>
    /\ last.Complete = 1
    /\ last.IoStatus = "STATUS_ACCESS_DENIED"
    /\ last.output = << 0, 0, 0, 0, 0 >>
    /\ DOMAIN files # {}
    /\ disk[Outside] = InitialDisk[Outside]

\* C26: a successful Write of Length bytes at Offset followed, with nothing in
\* between, by a Read of the same Offset and Length on the same FileId returns
\* ActualLength = Length and exactly the bytes written.
C26_WriteThenRead ==
    [][ ( /\ DispatchStep
          /\ last.irp.MajorFunction = "IRP_MJ_WRITE"
          /\ last.Complete = 1
          /\ last.IoStatus = "STATUS_SUCCESS"
          /\ HeadUINT32(last.output) = last.irp.VarLength
          /\ last'.irp.MajorFunction = "IRP_MJ_READ"
          /\ last'.irp.FileId = last.irp.FileId
          /\ last'.irp.Offset = last.irp.Offset
          /\ last'.irp.VarLength = last.irp.VarLength )
          => /\ last'.Complete = 1
             /\ last'.IoStatus = "STATUS_SUCCESS"
             /\ HeadUINT32(last'.output) = last.irp.VarLength
             /\ Len(last'.output) = 4 + last.irp.VarLength
             /\ xfer'.data = last.irp.Data ]_vars

\* C26's case: the byte 9 written at offset 1 of the one-byte file a, beyond
\* its end, was read back from offset 1.
C26_Witness ==
    /\ last.irp.MajorFunction = "IRP_MJ_READ"
    /\ last.irp.Offset = 1
    /\ last.Complete = 1
    /\ last.IoStatus = "STATUS_SUCCESS"
    /\ HeadUINT32(last.output) = 1
    /\ xfer.data = << 9 >>
    /\ disk[Append(root_path, "a")].data = << 1, 9 >>

\* A Close dispatched for an open regular file that is on the host.
FileClosed ==
    /\ DispatchStep
    /\ last'.irp.MajorFunction = "IRP_MJ_CLOSE"
    /\ drive_get_file_by_id(last'.irp.FileId) # NULL
    /\ ~objs[files[last'.irp.FileId].obj].dir
    /\ disk[objs[files[last'.irp.FileId].obj].local_path].exists

\* A SetInformation FileDispositionInformation was dispatched.
DispositionSet ==
    /\ DispatchStep
    /\ last'.irp.MajorFunction = "IRP_MJ_SET_INFORMATION"
    /\ last'.irp.FsInformationClass = "FileDispositionInformation"

MaxNameLen == 2

\* The bytes 2.2.1.3 DEVICE_ANNOUNCE forbids in a device name:
\* ':' '<' '>' '"' '/' '\' '|' and ' '.
ForbiddenBytes == { 58, 60, 62, 34, 47, 92, 124, 32 }

\* The bytes names are made of: the forbidden ones, '_', 'a' and a byte over 127.
NameBytes == ForbiddenBytes \cup { 95, 97, 200 }

\* The names handed in: C strings, so without a NUL inside.
RegNames == UNION { [ 1 .. n -> NameBytes ] : n \in 0 .. MaxNameLen }

\* The paths handed in: "", "/", "/a" and "/a/".
RegPaths == { << >>, << 47 >>, << 47, 97 >>, << 47, 97, 47 >> }

\* The switch of the filter loop: '_' for a forbidden byte, (BYTE)name[i] otherwise.
FilterByteMutant(c) == c
FilterByte(c) == IF c \in ForbiddenBytes THEN 95 ELSE c

\* The filter loop over name[0 .. length - 1], writing into drive->device.data.
RECURSIVE FilterName(_, _)
FilterName(data, nm) ==
    IF nm = << >> THEN data
    ELSE FilterName(Stream_Write_UINT8(data, FilterByte(Head(nm))), Tail(nm))

\* drive->device.data after the loop and Stream_Write_UINT8(data, '\0').
DeviceData(nm) == Stream_Write_UINT8(FilterName(<< >>, nm), 0)

\* pathLength: strnlen(path), less one for a trailing '/' of a longer path.
PathLength(p) ==
    IF Len(p) > 1 /\ p[Len(p)] = 47 THEN Len(p) - 1 ELSE Len(p)

\* No DRIVE_DEVICE: drive = NULL.
NoDrive ==
    [ state |-> "none", data |-> << >>, path |-> << >>, files |-> FALSE,
      IrpQueue |-> FALSE, thread |-> FALSE ]

\* calloc(1, sizeof(DRIVE_DEVICE)): every field zero.
NewDrive == [ NoDrive EXCEPT !.state = "allocated" ]

\* drive_free_int: the handle, the table, the queue, the name stream, the path
\* and the device itself are released.
drive_free_int(d) == [ NoDrive EXCEPT !.state = "freed" ]

\* What RegisterDevice of the device manager can return.
RegisterCodes == { "CHANNEL_RC_OK", "ERROR_INTERNAL_ERROR" }

\* drive_register_drive_path is entered with a name and a path.
InitRegister ==
    /\ async \in BOOLEAN
    /\ id_sequence = 1
    /\ files = EmptyTable
    /\ heap = << >>
    /\ IrpQueue = << >>
    /\ thread = "none"
    /\ phase = "unregistered"
    /\ irps = << >>
    /\ last = NoLast
    /\ channelError = "CHANNEL_RC_OK"
    /\ rPc = [ d \in 1 .. RaceDevices |-> "idle" ]
    /\ rTmp = [ d \in 1 .. RaceDevices |-> 0 ]
    /\ rGot = [ d \in 1 .. RaceDevices |-> 0 ]
    /\ MapIdle /\ FileIdle /\ CapIdle
    /\ regName \in RegNames
    /\ regPath \in RegPaths
    /\ regPc = "entry"
    /\ regError = "ERROR_INTERNAL_ERROR"
    /\ regDrive = NoDrive
    /\ regDevman = {}
    /\ regReturn = "pending"

\* A step of the registration leaves the device's run-time state alone.
RegFrame ==
    UNCHANGED << async, id_sequence, files, heap, IrpQueue, irps, last, channelError,
                 raceVars, mapVars, fileVars, capVars, regName, regPath >>

\* return code;
RegReturns(code) ==
    /\ regPc' = "done"
    /\ regReturn' = code

\* goto out_error, with error as it is or set to code first.
RegFails(code) ==
    /\ regPc' = "out_error"
    /\ regError' = code
    /\ UNCHANGED << regDrive, regDevman, regReturn, thread, phase >>

\* The parameter check, the name[0] && path[0] test and the calloc.
RegisterEnter ==
    /\ regPc = "entry"
    /\ \E argsOk \in BOOLEAN, callocOk \in BOOLEAN :
         IF ~argsOk
           THEN /\ RegReturns("ERROR_INVALID_PARAMETER")
                /\ UNCHANGED << regError, regDrive, regDevman, thread, phase >>
         ELSE IF regName = << >> \/ regPath = << >>
           THEN /\ RegReturns("CHANNEL_RC_OK")
                /\ UNCHANGED << regError, regDrive, regDevman, thread, phase >>
         ELSE IF ~callocOk
           THEN /\ RegReturns("CHANNEL_RC_NO_MEMORY")
                /\ UNCHANGED << regError, regDrive, regDevman, thread, phase >>
         ELSE /\ regDrive' = NewDrive
              /\ regPc' = "data"
              /\ UNCHANGED << regError, regDevman, regReturn, thread, phase >>
    /\ RegFrame

\* Stream_New(NULL, length + 1), the filter loop and the NUL. device.name is
\* the buffer of that stream, which is not NULL once Stream_New succeeded.
RegisterName ==
    /\ regPc = "data"
    /\ \E streamOk \in BOOLEAN :
         IF ~streamOk THEN RegFails("CHANNEL_RC_NO_MEMORY")
         ELSE /\ regDrive' = [ regDrive EXCEPT !.data = DeviceData(regName) ]
              /\ regPc' = "path"
              /\ UNCHANGED << regError, regDevman, regReturn, thread, phase >>
    /\ RegFrame

\* drive->path = ConvertUtf8NToWCharAlloc(path, pathLength, NULL)
RegisterPath ==
    /\ regPc = "path"
    /\ \E convertOk \in BOOLEAN :
         IF ~convertOk THEN RegFails("CHANNEL_RC_NO_MEMORY")
         ELSE /\ regDrive' = [ regDrive EXCEPT !.path = SubSeq(regPath, 1, PathLength(regPath)) ]
              /\ regPc' = "files"
              /\ UNCHANGED << regError, regDevman, regReturn, thread, phase >>
    /\ RegFrame

\* drive->files = ListDictionary_New(TRUE)
RegisterFiles ==
    /\ regPc = "files"
    /\ \E newOk \in BOOLEAN :
         IF ~newOk THEN RegFails("CHANNEL_RC_NO_MEMORY")
         ELSE /\ regDrive' = [ regDrive EXCEPT !.files = TRUE ]
              /\ regPc' = "queue"
              /\ UNCHANGED << regError, regDevman, regReturn, thread, phase >>
    /\ RegFrame

\* drive->IrpQueue = MessageQueue_New(NULL)
RegisterQueue ==
    /\ regPc = "queue"
    /\ \E newOk \in BOOLEAN :
         IF ~newOk THEN RegFails("CHANNEL_RC_NO_MEMORY")
         ELSE /\ regDrive' = [ regDrive EXCEPT !.IrpQueue = TRUE ]
              /\ regPc' = "register"
              /\ UNCHANGED << regError, regDevman, regReturn, thread, phase >>
    /\ RegFrame

\* error = pEntryPoints->RegisterDevice(devman, &drive->device); a device the
\* manager accepted is held by it. A sync device is complete after this.
RegisterDevice ==
    /\ regPc = "register"
    /\ \E rc \in RegisterCodes :
         IF rc # "CHANNEL_RC_OK" THEN RegFails(rc)
         ELSE /\ regError' = rc
              /\ regDevman' = regDevman \cup { "drive" }
              /\ UNCHANGED << regDrive, thread >>
              /\ IF async
                   THEN regPc' = "thread" /\ UNCHANGED << regReturn, phase >>
                   ELSE RegReturns("CHANNEL_RC_OK") /\ phase' = "registered"
    /\ RegFrame

\* drive->thread = CreateThread(..., CREATE_SUSPENDED, ...); ResumeThread.
RegisterThread ==
    /\ regPc = "thread"
    /\ \E threadOk \in BOOLEAN :
         IF ~threadOk THEN RegFails(regError)
         ELSE /\ regDrive' = [ regDrive EXCEPT !.thread = TRUE ]
              /\ thread' = "running"
              /\ phase' = "registered"
              /\ RegReturns("CHANNEL_RC_OK")
              /\ UNCHANGED << regError, regDevman >>
    /\ RegFrame

\* out_error: drive_free_int(drive); return error;
RegisterOutError ==
    /\ regPc = "out_error"
    /\ regDrive' = drive_free_int(regDrive)
    /\ RegReturns(regError)
    /\ UNCHANGED << regError, regDevman, thread, phase >>
    /\ RegFrame

NextRegister ==
    \/ RegisterEnter
    \/ RegisterName
    \/ RegisterPath
    \/ RegisterFiles
    \/ RegisterQueue
    \/ RegisterDevice
    \/ RegisterThread
    \/ RegisterOutError

SpecRegister == InitRegister /\ [][NextRegister]_vars

\* ------------------------------------------------------------------ C31
\* The name stream has been written: the device name is announced from it.
NameWritten == regDrive.state = "allocated" /\ regDrive.data # << >>

\* C31: the device name announced at registration is the user-supplied name
\* with each forbidden byte replaced by '_' and every other byte unchanged,
\* followed by one NUL; it is as long as the input, holds no forbidden byte,
\* and filtering it again changes nothing.
C31_NameSanitised ==
    NameWritten =>
      LET data == regDrive.data
          n == Len(regName)
      IN  /\ Len(data) = n + 1
          /\ data[n + 1] = 0
          /\ \A i \in 1 .. n :
               /\ data[i] = IF regName[i] \in ForbiddenBytes THEN 95 ELSE regName[i]
               /\ data[i] \notin ForbiddenBytes
          /\ DeviceData(SubSeq(data, 1, n)) = data

\* A name with a forbidden byte and a byte over 127 has been written.
C31_Witness ==
    /\ NameWritten
    /\ \E i, j \in 1 .. Len(regName) :
         regName[i] \in ForbiddenBytes /\ regName[j] = 200

\* ------------------------------------------------------------------ C33
\* The step is the worker's dispatch of an IRP whose handler returned a
\* non-zero dispatcher code.
WorkerHandlerFailed ==
    /\ async
    /\ DispatchStep
    /\ last'.error # "CHANNEL_RC_OK"

\* C33: when a handler returns a non-zero dispatcher code in async mode, the
\* worker reports it with setChannelError, a non-zero error, before it does
\* anything else.
C33_HandlerErrorReported ==
    [][ WorkerHandlerFailed => channelError' # "CHANNEL_RC_OK" ]_vars

\* ------------------------------------------------------------------ C34
\* The step ends the worker thread.
WorkerExitStep == thread = "running" /\ thread' = "exited"

\* The step takes the QUIT message from the head of the queue.
QuitTaken ==
    /\ IrpQueue # << >>
    /\ Head(IrpQueue).id = "WMQ_QUIT"
    /\ IrpQueue' = Tail(IrpQueue)

\* The step is a failed MessageQueue_Wait: no message is taken and
\* ERROR_INTERNAL_ERROR is reported on the channel error.
WaitFailed ==
    /\ IrpQueue' = IrpQueue
    /\ last' = last
    /\ channelError' = "ERROR_INTERNAL_ERROR"

\* C34: the worker exits only by taking QUIT or by a failed queue wait, the
\* latter with ERROR_INTERNAL_ERROR reported on the channel error; a turn of
\* the loop that dispatches nothing leaves the worker running.
C34_WorkerExitsOnlyOnQuitOrWait ==
    [][ /\ WorkerExitStep => (QuitTaken \/ WaitFailed)
        /\ (thread = "running" /\ ~DispatchStep /\ ~QuitTaken /\ ~WaitFailed)
             => thread' = "running" ]_vars

\* ------------------------------------------------------------------ C35
\* The step is a Create whose handler returned a non-zero dispatcher code.
CreateReturnedError ==
    /\ DispatchStep
    /\ last'.irp.MajorFunction = "IRP_MJ_CREATE"
    /\ last'.error # "CHANNEL_RC_OK"
    /\ last'.Complete = 0

\* Every entry of the table is a file whose FileId a Create response carried.
EveryEntryReported == \A k \in DOMAIN files : heap[files[k].obj].reported

\* C35: a Create whose handler returns a non-zero dispatcher code leaves the
\* file table with exactly the entries it had, so that every entry of the
\* table belongs to a FileId reported to the server in a Create response.
C35_FailedCreateLeavesTable ==
    [][ /\ CreateReturnedError => files' = files
        /\ EveryEntryReported' ]_vars

\* ------------------------------------------------------------------ C32
\* C32: in async mode the file table and the file objects are touched by one
\* thread at a time: a handler runs only in the worker thread while it is
\* alive, the table and the objects change only by a handler or by teardown,
\* and teardown frees the files only after the worker thread has exited.
C32_SingleThreadAccess ==
    [][ async
          => /\ DispatchStep => thread = "running"
             /\ (files' # files \/ heap' # heap) => (DispatchStep \/ TeardownStep)
             /\ TeardownStep => thread = "exited" ]_vars

\* ------------------------------------------------------------------ C36
\* The step is a Create with AllocationSize > 0 whose open succeeded on a
\* directory.
DirectoryCreatedWithAllocation ==
    /\ DispatchStep
    /\ last'.irp.MajorFunction = "IRP_MJ_CREATE"
    /\ last'.irp.AllocationSize > 0
    /\ Len(objs') = Len(objs) + 1
    /\ objs'[Len(objs')].dir

\* C36: the allocation step of Create is applied only after a successful open
\* of a regular file: a Create that opens a directory with AllocationSize > 0
\* skips the step and is completed with a normal response carrying its FileId.
C36_DirectorySkipsAllocation ==
    [][ DirectoryCreatedWithAllocation
          => /\ last'.Complete = 1
             /\ last'.IoStatus = "STATUS_SUCCESS"
             /\ HeadUINT32(last'.output) = objs'[Len(objs')].id
             /\ disk' = FsOpen(disk, last'.irp, id_sequence).disk ]_vars

\* ---------------------------------------------------------- output capacity
\* drive_process_irp_read from Stream_EnsureRemainingCapacity on, for a Read of
\* an open file whose seek succeeded, with Length kept at its 32-bit width.

\* The largest small Length, and the most bytes the file holds from Offset on.
MaxCapLength == 3
MaxCapFile == 5

\* A UINT32 is kept as two 16-bit halves, hi * 2^16 + lo.
HalfWord == 65536
UINT32(hi, lo) == [ hi |-> hi, lo |-> lo ]

\* a + n in UINT32 arithmetic, n < 2^16: the carry out of bit 31 is lost.
Add32(a, n) ==
    [ hi |-> (a.hi + (a.lo + n) \div HalfWord) % HalfWord,
      lo |-> (a.lo + n) % HalfWord ]

\* The carry out of bit 31 that a + n loses.
Carry32(a, n) == (a.hi + (a.lo + n) \div HalfWord) \div HalfWord

\* a <= b and n <= b for UINT32 a, b and a number n < 2^16.
Le32(a, b) == a.hi < b.hi \/ (a.hi = b.hi /\ a.lo <= b.lo)
LeNat32(n, b) == b.hi > 0 \/ n <= b.lo

\* The smaller of a UINT32 and a number below 2^16.
Min32(a, n) == IF a.hi > 0 \/ a.lo > n THEN n ELSE a.lo

\* The size handed to Stream_EnsureRemainingCapacity: Length + 4, a UINT32 sum.
ReadCapacity(Length) == Add32(Length, 4)

\* Stream_EnsureRemainingCapacity: afterwards at least size bytes remain.
Stream_EnsureRemainingCapacity(remaining, size) ==
    IF Le32(size, remaining) THEN remaining ELSE size

\* The Lengths asked: 0 and small ones, and the ones within 6 of 2^32.
CapLengths ==
    { UINT32(0, n) : n \in 0 .. MaxCapLength }
      \cup { UINT32(HalfWord - 1, HalfWord - n) : n \in 1 .. 6 }

\* The capacity irp->output has left when the handler is entered.
CapRemainings == { UINT32(0, 0), UINT32(0, 4), UINT32(0, 8) }

InitCapacity ==
    /\ DriveInit /\ ~async
    /\ MapIdle /\ FileIdle /\ RegIdle
    /\ capLength \in CapLengths
    /\ capFile \in 0 .. MaxCapFile
    /\ capRemaining \in CapRemainings
    /\ capStored = 0
    /\ capReturn = "pending"

\* if (!Stream_EnsureRemainingCapacity(irp->output, Length + 4))
\*     return ERROR_INTERNAL_ERROR;
ReadReserve ==
    /\ capReturn = "pending"
    /\ \E capOk \in BOOLEAN :
         IF capOk
           THEN /\ capRemaining' =
                     Stream_EnsureRemainingCapacity(capRemaining, ReadCapacity(capLength))
                /\ capReturn' = "reserved"
           ELSE /\ capRemaining' = capRemaining
                /\ capReturn' = "ERROR_INTERNAL_ERROR"
    /\ UNCHANGED << id_sequence, driveVars, raceVars, mapVars, fileVars, regVars,
                    capLength, capFile, capStored >>

\* Length == 0 writes the u32 0; otherwise drive_file_read(file, buffer, &Length)
\* with buffer 4 bytes into the output puts up to Length bytes of the file
\* there, a failed read none; then the response is completed.
ReadStore ==
    /\ capReturn = "reserved"
    /\ \E readOk \in BOOLEAN :
         capStored' = IF readOk THEN Min32(capLength, capFile) ELSE 0
    /\ capReturn' = "CHANNEL_RC_OK"
    /\ UNCHANGED << id_sequence, driveVars, raceVars, mapVars, fileVars, regVars,
                    capLength, capFile, capRemaining >>

NextCapacity ==
    \/ ReadReserve
    \/ ReadStore

SpecCapacity == InitCapacity /\ [][NextCapacity]_vars

\* ------------------------------------------------------------------ C37
\* C37: for every Read Length in 0 .. 2^32 - 1 the capacity reserved before
\* reading is at least Length + 4 computed without 32-bit wraparound, so the
\* data placed after the 4-byte ActualLength never exceeds it; if the capacity
\* cannot be reserved the handler returns ERROR_INTERNAL_ERROR without reading.
C37_CapacityCoversLength ==
    /\ capReturn \in { "reserved", "CHANNEL_RC_OK" }
         => /\ Carry32(capLength, 4) = 0
            /\ Le32(Add32(capLength, 4), capRemaining)
            /\ LeNat32(capStored + 4, capRemaining)
    /\ capReturn = "ERROR_INTERNAL_ERROR" => capStored = 0

\* The read put more bytes after the ActualLength field than the output had
\* room for.
ReadOverflowsOutput == capStored > 0 /\ ~LeNat32(capStored + 4, capRemaining)

\* ------------------------------------------------------------------ C38
\* drive_register_drive_path has returned.
RegisterReturned == regPc = "done" /\ regReturn # "pending"

\* The device is fully set up: allocated with its name stream, path, table
\* and queue, held by the device manager, and with its worker when async.
FullySetUp ==
    /\ regDrive.state = "allocated"
    /\ regDrive.data # << >>
    /\ regDrive.files
    /\ regDrive.IrpQueue
    /\ regDrive.thread = async
    /\ "drive" \in regDevman
    /\ phase = "registered"

\* Nothing was set up because name or path is empty.
NothingToRegister ==
    /\ regName = << >> \/ regPath = << >>
    /\ regDrive.state = "none"
    /\ regDevman = {}

\* C38: a registration that fails after allocating the device returns a
\* non-zero code and frees the device, no freed device is left registered with
\* the device manager, and CHANNEL_RC_OK is returned only when the device is
\* fully set up or when name or path is empty and nothing is registered.
C38_RegistrationAllOrNothing ==
    /\ regDrive.state = "freed" => regDevman = {}
    /\ RegisterReturned
         => /\ regDrive.state = "freed" => regReturn # "CHANNEL_RC_OK"
            /\ regReturn = "CHANNEL_RC_OK" => (FullySetUp \/ NothingToRegister)
            /\ regReturn # "CHANNEL_RC_OK" => regDrive.state # "allocated"

=============================================================================
